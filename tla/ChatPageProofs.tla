---------------------------- MODULE ChatPageProofs ----------------------------
(***************************************************************************)
(* Of the chat page and the relay, for any number of questions, tokens,    *)
(* clears and reloads: one reply at a time is under way, its timer is the  *)
(* only one set, each reply stands behind its question and, where Ollama's *)
(* stream does not break within a line, is all of what Ollama sent.  Page  *)
(* and relay together implement Conversation.                              *)
(***************************************************************************)
EXTENDS ChatPage, FiniteSets, FiniteSetTheorems, TLAPS

Piece == {"line", "head", "rest", "error"}

\* The pieces that complete a token.
Carriers(s) == {i \in 1..Len(s) : s[i] \in {"line", "rest"}}

Tokens(s) == Cardinality(Carriers(s))

LEMMA CarriersFinite ==
  ASSUME NEW s \in Seq(Piece)
  PROVE  IsFiniteSet(Carriers(s)) /\ Tokens(s) \in Nat
<1>1. IsFiniteSet(1..Len(s))
  BY FS_Interval
<1>2. Carriers(s) \in SUBSET (1..Len(s))
  BY DEF Carriers
<1>3. IsFiniteSet(Carriers(s))
  BY <1>1, <1>2, FS_Subset
<1> QED
  BY <1>3, FS_CardinalityType DEF Tokens

\* Nothing on the wire carries no token.
LEMMA TokensOfNone == Tokens(<<>>) = 0
<1>1. Carriers(<<>>) = {}
  BY DEF Carriers
<1> QED
  BY <1>1, FS_EmptySet DEF Tokens

\* A piece sent adds its token.
LEMMA TokensOfAppend ==
  ASSUME NEW s \in Seq(Piece), NEW p \in Piece
  PROVE  Tokens(Append(s, p)) =
           Tokens(s) + (IF p \in {"line", "rest"} THEN 1 ELSE 0)
<1>1. Len(s) \in Nat /\ Len(Append(s, p)) = Len(s) + 1
  OBVIOUS
<1>2. \A i \in 1..Len(s) : Append(s, p)[i] = s[i]
  OBVIOUS
<1>3. Append(s, p)[Len(s) + 1] = p
  OBVIOUS
<1>4. 1..(Len(s) + 1) = 1..Len(s) \cup {Len(s) + 1} /\ Len(s) + 1 \notin 1..Len(s)
  BY <1>1
<1>5. IsFiniteSet(Carriers(s)) /\ Tokens(s) \in Nat
  BY CarriersFinite
<1>6. CASE p \in {"line", "rest"}
  <2>1. Carriers(Append(s, p)) = Carriers(s) \cup {Len(s) + 1}
    BY <1>1, <1>2, <1>3, <1>4, <1>6 DEF Carriers
  <2>2. Len(s) + 1 \notin Carriers(s)
    BY <1>4 DEF Carriers
  <2> QED
    BY <1>5, <1>6, <2>1, <2>2, FS_AddElement DEF Tokens
<1>7. CASE p \notin {"line", "rest"}
  <2>1. Carriers(Append(s, p)) = Carriers(s)
    BY <1>1, <1>2, <1>3, <1>4, <1>7 DEF Carriers
  <2> QED
    BY <1>5, <1>7, <2>1 DEF Tokens
<1> QED
  BY <1>6, <1>7

\* A piece read takes its token along.
LEMMA TokensOfTail ==
  ASSUME NEW s \in Seq(Piece), s # <<>>
  PROVE  Tokens(s) =
           Tokens(Tail(s)) + (IF Head(s) \in {"line", "rest"} THEN 1 ELSE 0)
<1>1. /\ Len(s) \in Nat \ {0} /\ Len(Tail(s)) = Len(s) - 1 /\ Head(s) = s[1]
      /\ Tail(s) \in Seq(Piece)
  OBVIOUS
<1>2. \A i \in 1..(Len(s) - 1) : Tail(s)[i] = s[i + 1]
  OBVIOUS
<1> DEFINE Rest == Carriers(s) \ {1}
           f == [i \in Carriers(Tail(s)) |-> i + 1]
<1>3. IsFiniteSet(Carriers(Tail(s))) /\ Tokens(Tail(s)) \in Nat
  BY <1>1, CarriersFinite
<1>4. f \in Bijection(Carriers(Tail(s)), Rest)
  <2>1. \A i \in Carriers(Tail(s)) : i \in 1..(Len(s) - 1) /\ f[i] = i + 1 /\ f[i] \in Rest
    BY <1>1, <1>2 DEF Carriers
  <2>2. f \in Injection(Carriers(Tail(s)), Rest)
    <3>1. f \in [Carriers(Tail(s)) -> Rest]
      BY <2>1
    <3>2. \A i, j \in Carriers(Tail(s)) : f[i] = f[j] => i = j
      BY <2>1
    <3> QED
      BY <3>1, <3>2 DEF Injection, IsInjective
  <2>3. \A j \in Rest : \E i \in Carriers(Tail(s)) : f[i] = j
    <3> TAKE j \in Rest
    <3>1. j - 1 \in 1..(Len(s) - 1) /\ (j - 1) + 1 = j /\ s[j] \in {"line", "rest"}
      BY <1>1 DEF Carriers
    <3>2. Tail(s)[j - 1] = s[j]
      BY <1>2, <3>1
    <3>3. j - 1 \in Carriers(Tail(s))
      BY <1>1, <3>1, <3>2 DEF Carriers
    <3> QED
      BY <2>1, <3>1, <3>3
  <2> QED
    BY <2>2, <2>3 DEF Bijection, Surjection, Injection
<1>5. IsFiniteSet(Rest) /\ Cardinality(Rest) = Tokens(Tail(s))
  BY <1>3, <1>4, FS_Bijection DEF Tokens, ExistsBijection
<1>6. CASE s[1] \in {"line", "rest"}
  <2>1. Carriers(s) = Rest \cup {1} /\ 1 \notin Rest
    BY <1>1, <1>6 DEF Carriers
  <2> QED
    BY <1>1, <1>3, <1>5, <1>6, <2>1, FS_AddElement DEF Tokens
<1>7. CASE s[1] \notin {"line", "rest"}
  <2>1. Carriers(s) = Rest
    BY <1>1, <1>7 DEF Carriers
  <2>2. Tokens(s) = Tokens(Tail(s))
    BY <1>5, <2>1 DEF Tokens
  <2> QED
    BY <1>1, <1>3, <1>7, <2>2
<1> QED
  BY <1>6, <1>7

-----------------------------------------------------------------------------
\* No send() of the question is under way.
Idle(t) ==
  stage[t] = "none" =>
    /\ relay[t] \in {"off", "whole", "failed"}
    /\ wire[t] = <<>>
    /\ content[t] = 0 /\ ~buffered[t] /\ ~sawError[t]

Unasked(t) ==
  t > turns => stage[t] = "none" /\ relay[t] = "off" /\ sent[t] = 0

\* No token is lost between Ollama and the page.
Counted(t) ==
  /\ stage[t] # "none" => content[t] + Tokens(wire[t]) = sent[t]
  /\ sent[t] <= MaxTokens
  /\ relay[t] = "within" => sent[t] < MaxTokens

\* The last piece under way, as the page will find it: a line is open.
Open(t) ==
  IF wire[t] = <<>> THEN buffered[t] ELSE wire[t][Len(wire[t])] = "head"

\* The second part of a line comes right behind the first.
Paired(t) ==
  /\ wire[t] # <<>> /\ wire[t][1] = "rest" => buffered[t]
  /\ \A i \in 1..(Len(wire[t]) - 1) :
       wire[t][i + 1] = "rest" => wire[t][i] = "head"
  /\ relay[t] = "within" => Open(t)

TurnInv(t) == Idle(t) /\ Unasked(t) /\ Counted(t) /\ Paired(t)

IInv ==
  /\ TypeOK
  /\ OneAtATime
  /\ TimersAreCurrent
  /\ \A t \in Turn : TurnInv(t)

\* Behind the question under way there is nothing yet.
Asking ==
  sending => history = <<>> \/ history[Len(history)] = Question(abortable)

\* An error line stands on its own, and a stream that failed has one.
Framed(t) ==
  /\ wire[t] # <<>> /\ wire[t][1] = "error" => ~buffered[t]
  /\ \A i \in 1..(Len(wire[t]) - 1) :
       wire[t][i + 1] = "error" => wire[t][i] # "head"
  /\ relay[t] \in {"asking", "between"} => ~Open(t)
  /\ stage[t] # "none" /\ relay[t] = "failed" =>
       sawError[t] \/ (wire[t] # <<>> /\ wire[t][Len(wire[t])] = "error")

\* The question of a reply is done with.
Settled ==
  \A i \in 1..Len(history) :
    history[i].turn <= turns
      /\ (history[i].role = "assistant" => stage[history[i].turn] = "none")

-----------------------------------------------------------------------------
LEMMA InitIInv == Init => IInv
<1> SUFFICES ASSUME Init PROVE IInv
  OBVIOUS
<1>0. MaxTurns \in Nat /\ MaxTokens \in Nat
  BY RelayAssumption DEF RelayAssumption
<1>1. TypeOK
  <2>1. RTypeOK
    BY DEF Init, RInit, RTypeOK
  <2>2. /\ stage \in [Turn -> {"none", "fetch", "read"}]
        /\ content \in [Turn -> Nat]
        /\ buffered \in [Turn -> BOOLEAN] /\ sawError \in [Turn -> BOOLEAN]
    BY DEF Init, ForAll
  <2>3. sending \in BOOLEAN /\ listed \in BOOLEAN /\ enabled \in BOOLEAN
    BY Zenon DEF Init
  <2>4. /\ loads = 1 /\ turns = 0 /\ clears = 0 /\ reloads = 0
        /\ abortable = NoTurn /\ timers = {} /\ history = <<>> /\ asked = {}
    BY Zenon DEF Init
  <2>5. /\ loads \in Nat /\ turns \in 0..MaxTurns
        /\ clears \in Nat /\ reloads \in Nat
    BY <1>0, <2>4
  <2> QED
    BY <2>1, <2>2, <2>3, <2>4, <2>5 DEF TypeOK
<1>2. OneAtATime /\ TimersAreCurrent
  BY DEF Init, ForAll, OneAtATime, UnderWay, TimersAreCurrent, Turn
<1>3. ASSUME NEW t \in Turn PROVE TurnInv(t)
  <2>1. /\ relay[t] = "off" /\ wire[t] = <<>> /\ sent[t] = 0
        /\ stage[t] = "none" /\ content[t] = 0 /\ ~buffered[t] /\ ~sawError[t]
    BY DEF Init, RInit, ForAll
  <2> QED
    BY <1>0, <2>1 DEF TurnInv, Idle, Unasked, Counted, Paired
<1> QED
  BY <1>1, <1>2, <1>3 DEF IInv

\* A turn whose part of the state stays as it is keeps its invariant.
LEMMA OtherTurn ==
  ASSUME NEW u \in Turn, TurnInv(u), u <= turns \/ turns' = turns,
         turns' \in Nat, turns \in Nat, turns <= turns',
         relay'[u] = relay[u], wire'[u] = wire[u], sent'[u] = sent[u],
         stage'[u] = stage[u], content'[u] = content[u],
         buffered'[u] = buffered[u], sawError'[u] = sawError[u]
  PROVE  TurnInv(u)'
<1>1. Idle(u)' /\ Unasked(u)'
  BY DEF TurnInv, Idle, Unasked, Turn
<1>2. Counted(u)'
  BY DEF TurnInv, Counted, Tokens, Carriers
<1>3. Paired(u)'
  BY DEF TurnInv, Paired, Open
<1> QED
  BY <1>1, <1>2, <1>3 DEF TurnInv

\* What the end of send(), in its catch block or not, does to its turn.
LEMMA EndedTurn ==
  ASSUME IInv, NEW t \in Turn, stage[t] # "none", Finally(t)
  PROVE  /\ sending /\ abortable = t
         /\ stage' = [stage EXCEPT ![t] = "none"]
         /\ stage' \in [Turn -> {"none", "fetch", "read"}]
         /\ content' \in [Turn -> Nat]
         /\ buffered' \in [Turn -> BOOLEAN] /\ sawError' \in [Turn -> BOOLEAN]
         /\ OneAtATime' /\ TimersAreCurrent'
         /\ timers' \subseteq Turn
         /\ stage'[t] = "none" /\ content'[t] = 0 /\ ~buffered'[t] /\ ~sawError'[t]
         /\ \A u \in Turn \ {t} :
              /\ stage'[u] = stage[u] /\ content'[u] = content[u]
              /\ buffered'[u] = buffered[u] /\ sawError'[u] = sawError[u]
<1>1. TypeOK /\ OneAtATime /\ TimersAreCurrent
  BY DEF IInv
<1>2. sending /\ abortable = t
  BY <1>1 DEF OneAtATime, UnderWay
<1>3. timers \subseteq {t}
  BY <1>1, <1>2 DEF TimersAreCurrent
<1>4. timers' = {}
  BY <1>3 DEF Finally, ClearTimer
<1>5. /\ stage' = [stage EXCEPT ![t] = "none"] /\ content' = [content EXCEPT ![t] = 0]
      /\ buffered' = [buffered EXCEPT ![t] = FALSE]
      /\ sawError' = [sawError EXCEPT ![t] = FALSE]
      /\ sending' = FALSE
  BY DEF Finally
<1>6. OneAtATime'
  <2>1. UnderWay = {t}
    BY <1>1, <1>2 DEF OneAtATime
  <2>2. \A u \in Turn : stage'[u] = "none"
    BY <1>1, <1>5, <2>1 DEF UnderWay, TypeOK
  <2> QED
    BY <1>5, <2>2 DEF OneAtATime, UnderWay
<1>7. TimersAreCurrent' /\ timers' \subseteq Turn
  <2>1. UnderWay' = {}
    BY <1>5, <1>6 DEF OneAtATime
  <2> QED
    BY <1>4, <2>1 DEF TimersAreCurrent
<1> QED
  BY <1>1, <1>2, <1>5, <1>6, <1>7 DEF TypeOK

\* A step of the relay, or of the page, that leaves the page's control alone.
LEMMA ControlStays ==
  ASSUME IInv,
         UNCHANGED <<history, sending, abortable, timers, stage, models, counts,
                     asked>>
  PROVE  /\ OneAtATime' /\ TimersAreCurrent'
         /\ RTypeOK' /\ content' \in [Turn -> Nat]
              /\ buffered' \in [Turn -> BOOLEAN] /\ sawError' \in [Turn -> BOOLEAN]
              => TypeOK'
BY DEF IInv, OneAtATime, UnderWay, TimersAreCurrent, TypeOK, models, counts

-----------------------------------------------------------------------------
PageRests ==
  UNCHANGED <<history, sending, abortable, timers, closures, models, counts,
              asked>>

\* What a piece does to the wire.
LEMMA SaidPiece ==
  ASSUME RTypeOK, NEW t \in Turn, NEW p \in Piece, Say(t, p)
  PROVE  /\ wire' \in [Turn -> Seq(Piece)]
         /\ \A u \in Turn \ {t} : wire'[u] = wire[u]
         /\ wire'[t] = Append(wire[t], p) /\ wire'[t] # <<>>
         /\ Len(wire[t]) \in Nat /\ Len(wire'[t]) = Len(wire[t]) + 1
         /\ wire'[t][Len(wire'[t])] = p
         /\ \A i \in 1..Len(wire[t]) : wire'[t][i] = wire[t][i]
         /\ Tokens(wire'[t]) =
              Tokens(wire[t]) + (IF p \in {"line", "rest"} THEN 1 ELSE 0)
         /\ Tokens(wire[t]) \in Nat
<1>1. wire \in [Turn -> Seq(Piece)] /\ wire[t] \in Seq(Piece)
  BY DEF RTypeOK, Piece
<1>2. wire' = [wire EXCEPT ![t] = Append(wire[t], p)]
  BY DEF Say
<1>3. Append(wire[t], p) \in Seq(Piece)
  BY <1>1
<1>4. /\ wire' \in [Turn -> Seq(Piece)] /\ wire'[t] = Append(wire[t], p)
      /\ \A u \in Turn \ {t} : wire'[u] = wire[u]
  BY <1>1, <1>2, <1>3
<1>5. /\ Len(wire[t]) \in Nat /\ Len(Append(wire[t], p)) = Len(wire[t]) + 1
      /\ Append(wire[t], p)[Len(wire[t]) + 1] = p
      /\ \A i \in 1..Len(wire[t]) : Append(wire[t], p)[i] = wire[t][i]
      /\ Append(wire[t], p) # <<>>
  BY <1>1
<1>6. Tokens(wire[t]) \in Nat
  BY <1>1, CarriersFinite
<1> QED
  BY <1>1, <1>4, <1>5, <1>6, TokensOfAppend

\* A piece leaves the lines paired if the second part follows the first.
LEMMA SaidPaired ==
  ASSUME RTypeOK, NEW t \in Turn, NEW p \in Piece, Say(t, p), Paired(t),
         PageRests, p = "rest" => Open(t),
         relay'[t] = "within" => p = "head"
  PROVE  Paired(t)'
<1>1. /\ wire'[t] # <<>> /\ Len(wire[t]) \in Nat
      /\ Len(wire'[t]) = Len(wire[t]) + 1
      /\ wire'[t][Len(wire'[t])] = p
      /\ \A i \in 1..Len(wire[t]) : wire'[t][i] = wire[t][i]
  BY SaidPiece
<1>2. (wire[t] = <<>>) <=> Len(wire[t]) = 0
  BY DEF RTypeOK
<1>3. buffered' = buffered
  BY DEF PageRests, closures
<1>4. wire'[t][1] = "rest" => buffered'[t]
  <2>1. CASE wire[t] = <<>>
    BY <1>1, <1>2, <1>3, <2>1 DEF Open
  <2>2. CASE wire[t] # <<>>
    BY <1>1, <1>2, <1>3, <2>2 DEF Paired
  <2> QED
    BY <2>1, <2>2
<1>5. ASSUME NEW i \in 1..(Len(wire'[t]) - 1), wire'[t][i + 1] = "rest"
      PROVE  wire'[t][i] = "head"
  <2>1. CASE i = Len(wire[t])
    BY <1>1, <1>2, <1>5, <2>1 DEF Open
  <2>2. CASE i # Len(wire[t])
    <3>1. i \in 1..(Len(wire[t]) - 1) /\ i \in 1..Len(wire[t])
            /\ i + 1 \in 1..Len(wire[t])
      BY <1>1, <1>5, <2>2
    <3> QED
      BY <1>1, <1>5, <3>1 DEF Paired
  <2> QED
    BY <2>1, <2>2
<1>6. relay'[t] = "within" => Open(t)'
  BY <1>1 DEF Open
<1> QED
  BY <1>4, <1>5, <1>6 DEF Paired

\* A step of a relay that keeps its own turn in order.
LEMMA RelayMoves ==
  ASSUME IInv, NEW t \in Turn, NEW from, NEW to,
         from \subseteq {"asking", "between", "within"},
         to \in {"between", "within", "whole", "failed"},
         Move(t, from, to), PageRests,
         wire' \in [Turn -> Seq(Piece)], sent' \in [Turn -> Nat],
         \A u \in Turn \ {t} : wire'[u] = wire[u] /\ sent'[u] = sent[u],
         stage[t] # "none" => Counted(t)' /\ Paired(t)'
  PROVE  IInv'
<1>1. TypeOK /\ RTypeOK /\ (\A u \in Turn : TurnInv(u))
  BY DEF IInv, TypeOK
<1>2. /\ relay[t] \in from /\ relay' = [relay EXCEPT ![t] = to]
  BY DEF Move
<1>3. stage[t] # "none" /\ t <= turns
  <2>1. Idle(t) /\ Unasked(t) /\ relay[t] \in {"asking", "between", "within"}
    BY <1>1, <1>2 DEF TurnInv
  <2>2. turns \in Int /\ t \in Int
    BY <1>1 DEF TypeOK, Turn
  <2>3. stage[t] # "none"
    BY <2>1 DEF Idle
  <2> QED
    BY <2>1, <2>2, <2>3 DEF Unasked
<1>4. RTypeOK'
  BY <1>1, <1>2 DEF RTypeOK, Piece
<1>5. /\ history' = history /\ stage' = stage /\ content' = content
      /\ buffered' = buffered /\ sawError' = sawError /\ turns' = turns
      /\ UNCHANGED <<history, sending, abortable, timers, stage, models, counts,
                     asked>>
  BY DEF PageRests, closures, counts
<1>6. TypeOK' /\ OneAtATime' /\ TimersAreCurrent'
  <2>1. /\ content' \in [Turn -> Nat] /\ buffered' \in [Turn -> BOOLEAN]
        /\ sawError' \in [Turn -> BOOLEAN]
    BY <1>1, <1>5 DEF TypeOK
  <2> QED
    BY <1>4, <1>5, <2>1, ControlStays
<1>7. ASSUME NEW u \in Turn PROVE TurnInv(u)'
  <2>1. CASE u = t
    <3>1. Idle(t)' /\ Unasked(t)'
      BY <1>3, <1>5, <1>1 DEF Idle, Unasked, TypeOK, Turn
    <3> QED
      BY <1>3, <2>1, <3>1 DEF TurnInv
  <2>2. CASE u # t
    <3>1. /\ relay'[u] = relay[u] /\ wire'[u] = wire[u] /\ sent'[u] = sent[u]
      BY <1>1, <1>2, <2>2 DEF RTypeOK
    <3>2. turns \in Nat
      BY <1>1 DEF TypeOK
    <3> QED
      BY <1>1, <1>5, <3>1, <3>2, OtherTurn
  <2> QED
    BY <2>1, <2>2
<1> QED
  BY <1>6, <1>7 DEF IInv

\* The relay keeps the invariant, whatever Ollama does.
LEMMA RelayIInv ==
  ASSUME IInv, NEW t \in Turn, Relay(t), PageRests
  PROVE  IInv'
<1>1. /\ TypeOK /\ RTypeOK /\ TurnInv(t)
      /\ relay \in [Turn -> {"off", "asking", "between", "within", "whole",
                            "failed"}]
      /\ wire \in [Turn -> Seq(Piece)] /\ sent \in [Turn -> Nat]
  BY DEF IInv, TypeOK, RTypeOK, Piece
<1>2. /\ content' = content /\ stage' = stage /\ buffered' = buffered
      /\ content[t] \in Nat /\ sent[t] \in Nat /\ MaxTokens \in Nat
  BY <1>1, RelayAssumption DEF PageRests, closures, TypeOK, RelayAssumption
<1>3. ASSUME UNCHANGED sent, Say(t, "error"), relay'[t] = "failed"
      PROVE  (Counted(t)' /\ Paired(t)') \/ stage[t] = "none"
  <2>1. Paired(t)'
    BY <1>1, <1>3, SaidPaired DEF TurnInv, Piece
  <2>2. Tokens(wire'[t]) = Tokens(wire[t]) + 0
    BY <1>1, <1>3, SaidPiece DEF Piece
  <2>3. Tokens(wire[t]) \in Nat
    BY <1>1, <1>3, SaidPiece DEF Piece
  <2> QED
    BY <1>1, <1>2, <1>3, <2>1, <2>2, <2>3 DEF TurnInv, Counted
<1>4. ASSUME UNCHANGED sent, NEW from,
             from \subseteq {"asking", "between", "within"},
             Move(t, from, "failed"), Say(t, "error")
      PROVE  IInv'
  <2>1. /\ wire' \in [Turn -> Seq(Piece)]
        /\ \A u \in Turn \ {t} : wire'[u] = wire[u]
    BY <1>1, <1>4, SaidPiece DEF Piece
  <2>2. relay'[t] = "failed"
    BY <1>1, <1>4 DEF Move
  <2>3. stage[t] # "none" => Counted(t)' /\ Paired(t)'
    BY <1>3, <1>4, <2>2
  <2> QED
    BY <1>1, <1>4, <2>1, <2>3, RelayMoves
<1>5. ASSUME NEW from, NEW to, UNCHANGED <<wire, sent>>,
             from \subseteq {"asking", "between"}, to \in {"between", "whole"},
             Move(t, from, to)
      PROVE  IInv'
  <2>1. relay'[t] = to
    BY <1>1, <1>5 DEF Move
  <2>2. stage[t] # "none" => Counted(t)' /\ Paired(t)'
    BY <1>1, <1>2, <1>5, <2>1 DEF TurnInv, Counted, Paired, Open, Tokens, Carriers
  <2> QED
    BY <1>1, <1>5, <2>2, RelayMoves
<1>6. ASSUME NEW p \in {"line", "rest"}, NEW at \in {"between", "within"},
             sent[t] < MaxTokens, Move(t, {at}, "between"), Say(t, p),
             sent' = [sent EXCEPT ![t] = @ + 1],
             p = "rest" => Open(t)
      PROVE  IInv'
  <2>1. /\ wire' \in [Turn -> Seq(Piece)]
        /\ \A u \in Turn \ {t} : wire'[u] = wire[u]
        /\ Tokens(wire'[t]) = Tokens(wire[t]) + 1 /\ Tokens(wire[t]) \in Nat
    BY <1>1, <1>6, SaidPiece DEF Piece
  <2>2. relay'[t] = "between"
    BY <1>1, <1>6 DEF Move
  <2>3. Paired(t)'
    BY <1>1, <1>6, <2>2, SaidPaired DEF TurnInv, Piece
  <2>4. /\ sent' \in [Turn -> Nat] /\ sent'[t] = sent[t] + 1
        /\ \A u \in Turn \ {t} : sent'[u] = sent[u]
    BY <1>1, <1>6
  <2>5. stage[t] # "none" => Counted(t)'
    <3>1. Counted(t)
      BY <1>1 DEF TurnInv
    <3>2. /\ Tokens(wire'[t]) = Tokens(wire[t]) + 1 /\ Tokens(wire[t]) \in Nat
          /\ content'[t] = content[t] /\ stage'[t] = stage[t]
          /\ sent'[t] = sent[t] + 1 /\ sent[t] < MaxTokens
      BY <1>2, <1>6, <2>1, <2>4
    <3> QED
      BY <1>2, <2>2, <3>1, <3>2 DEF Counted
  <2> QED
    BY <1>6, <2>1, <2>3, <2>4, <2>5, RelayMoves
<1>7. CASE Refuse(t)
  BY <1>4, <1>7 DEF Refuse, SayError
<1>8. CASE Accept(t)
  BY <1>5, <1>8 DEF Accept
<1>9. CASE PassLine(t)
  BY <1>6, <1>9 DEF PassLine
<1>10. CASE PassHead(t)
  <2>1. /\ wire' \in [Turn -> Seq(Piece)]
        /\ \A u \in Turn \ {t} : wire'[u] = wire[u]
        /\ Tokens(wire'[t]) = Tokens(wire[t]) + 0 /\ Tokens(wire[t]) \in Nat
    BY <1>1, <1>10, SaidPiece DEF Piece, PassHead
  <2>2. relay'[t] = "within" /\ sent' = sent /\ sent[t] < MaxTokens
    BY <1>1, <1>10 DEF Move, PassHead
  <2>3. Paired(t)'
    BY <1>1, <1>10, <2>2, SaidPaired DEF TurnInv, Piece, PassHead
  <2>4. stage[t] # "none" => Counted(t)'
    <3>1. Counted(t)
      BY <1>1 DEF TurnInv
    <3>2. /\ Tokens(wire'[t]) = Tokens(wire[t])
          /\ content'[t] = content[t] /\ stage'[t] = stage[t]
          /\ sent'[t] = sent[t] /\ sent[t] < MaxTokens
      BY <1>2, <2>1, <2>2
    <3> QED
      BY <1>2, <3>1, <3>2 DEF Counted
  <2> QED
    BY <1>1, <1>10, <2>1, <2>2, <2>3, <2>4, RelayMoves DEF PassHead
<1>11. CASE PassRest(t)
  <2>1. relay[t] = "within"
    BY <1>11 DEF PassRest, Move
  <2>2. sent[t] < MaxTokens /\ Open(t)
    BY <1>1, <2>1 DEF TurnInv, Counted, Paired
  <2> QED
    BY <1>6, <1>11, <2>2 DEF PassRest
<1>12. CASE PassError(t)
  BY <1>4, <1>12 DEF PassError
<1>13. CASE Finish(t)
  BY <1>5, <1>13 DEF Finish
<1>14. CASE Break(t)
  BY <1>4, <1>14 DEF Break, SayError
<1> QED
  BY <1>7, <1>8, <1>9, <1>10, <1>11, <1>12, <1>13, <1>14 DEF Relay

-----------------------------------------------------------------------------
\* The end of send() without a reply, in the catch block or behind an error.
LEMMA HungUp ==
  ASSUME IInv, NEW t \in Turn, stage[t] # "none", Hangup({t}), Finally(t),
         UNCHANGED history
  PROVE  IInv'
<1>1. TypeOK /\ RTypeOK /\ (\A u \in Turn : TurnInv(u)) /\ MaxTokens \in Nat
  BY RelayAssumption DEF IInv, TypeOK, RelayAssumption
<1>2. /\ relay' = [u \in Turn |-> IF u \in {t} THEN "off" ELSE relay[u]]
      /\ wire' = [u \in Turn |-> IF u \in {t} THEN <<>> ELSE wire[u]]
      /\ sent' = [u \in Turn |-> IF u \in {t} THEN 0 ELSE sent[u]]
  BY DEF Hangup
<1>3. RTypeOK'
  <2>1. \A u \in Turn : relay'[u] \in {"off", "asking", "between", "within",
                                      "whole", "failed"}
    BY <1>1, <1>2 DEF RTypeOK
  <2>2. \A u \in Turn : wire'[u] \in Seq({"line", "head", "rest", "error"})
    BY <1>1, <1>2 DEF RTypeOK
  <2>3. \A u \in Turn : sent'[u] \in Nat
    BY <1>1, <1>2 DEF RTypeOK
  <2> QED
    BY <1>2, <2>1, <2>2, <2>3 DEF RTypeOK
<1>4. /\ OneAtATime' /\ TimersAreCurrent' /\ timers' \subseteq Turn
      /\ stage' \in [Turn -> {"none", "fetch", "read"}]
      /\ content' \in [Turn -> Nat]
      /\ buffered' \in [Turn -> BOOLEAN] /\ sawError' \in [Turn -> BOOLEAN]
      /\ stage'[t] = "none" /\ content'[t] = 0 /\ ~buffered'[t] /\ ~sawError'[t]
      /\ \A u \in Turn \ {t} :
           /\ stage'[u] = stage[u] /\ content'[u] = content[u]
           /\ buffered'[u] = buffered[u] /\ sawError'[u] = sawError[u]
  BY EndedTurn
<1>5. /\ sending' \in BOOLEAN /\ abortable' \in Turn \cup {NoTurn}
      /\ listed' = listed /\ enabled' = enabled /\ loads' = loads
      /\ turns' = turns /\ clears' = clears /\ reloads' = reloads
      /\ asked' = asked
  BY DEF Finally, models, counts
<1>6. TypeOK'
  BY <1>1, <1>3, <1>4, <1>5 DEF TypeOK
<1>7. ASSUME NEW u \in Turn PROVE TurnInv(u)'
  <2>1. CASE u = t
    <3>1. relay'[t] = "off" /\ wire'[t] = <<>> /\ sent'[t] = 0
      BY <1>2
    <3> QED
      BY <1>1, <1>4, <2>1, <3>1 DEF TurnInv, Idle, Unasked, Counted, Paired
  <2>2. CASE u # t
    <3>1. /\ relay'[u] = relay[u] /\ wire'[u] = wire[u] /\ sent'[u] = sent[u]
          /\ turns \in Nat
      BY <1>1, <1>2, <2>2 DEF TypeOK
    <3> QED
      BY <1>1, <1>4, <1>5, <2>2, <3>1, OtherTurn
  <2> QED
    BY <2>1, <2>2
<1> QED
  BY <1>4, <1>6, <1>7 DEF IInv

LEMMA FailIInv ==
  ASSUME IInv, NEW t \in Turn, Fail(t)
  PROVE  IInv'
BY HungUp DEF Fail

\* currentAbort is nobody's, or that of a question.
LEMMA AbortIInv ==
  ASSUME IInv, Abort
  PROVE  IInv'
<1>1. abortable \in Turn /\ Fail(abortable)
  BY DEF IInv, TypeOK, Abort
<1> QED
  BY <1>1, FailIInv

LEMMA EndInReplyIInv ==
  ASSUME IInv, NEW t \in Turn, EndInReply(t)
  PROVE  IInv'
<1>1. /\ TypeOK /\ RTypeOK /\ (\A u \in Turn : TurnInv(u))
      /\ MaxTokens \in Nat
      /\ history \in Seq([role : {"user", "assistant"}, turn : Turn,
                          tokens : 0..MaxTokens])
  BY RelayAssumption DEF IInv, TypeOK, RelayAssumption
<1>2. /\ stage[t] = "read" /\ wire[t] = <<>> /\ Ended(t)
      /\ history' = Append(history, Reply(t, content[t]))
      /\ Finally(t) /\ relay' = relay /\ wire' = wire /\ sent' = sent
  BY DEF EndInReply, rvars
<1>3. content[t] \in 0..MaxTokens
  <2>1. /\ content[t] \in Nat /\ sent[t] \in Nat /\ sent[t] <= MaxTokens
        /\ content[t] + Tokens(wire[t]) = sent[t]
    BY <1>1, <1>2 DEF TypeOK, RTypeOK, TurnInv, Counted
  <2> QED
    BY <1>1, <1>2, <2>1, TokensOfNone
<1>4. history' \in Seq([role : {"user", "assistant"}, turn : Turn,
                        tokens : 0..MaxTokens])
  BY <1>1, <1>2, <1>3 DEF Reply
<1>5. /\ OneAtATime' /\ TimersAreCurrent' /\ timers' \subseteq Turn
      /\ stage' \in [Turn -> {"none", "fetch", "read"}]
      /\ content' \in [Turn -> Nat]
      /\ buffered' \in [Turn -> BOOLEAN] /\ sawError' \in [Turn -> BOOLEAN]
      /\ stage'[t] = "none" /\ content'[t] = 0 /\ ~buffered'[t] /\ ~sawError'[t]
      /\ \A u \in Turn \ {t} :
           /\ stage'[u] = stage[u] /\ content'[u] = content[u]
           /\ buffered'[u] = buffered[u] /\ sawError'[u] = sawError[u]
  BY <1>2, EndedTurn
<1>6. /\ sending' \in BOOLEAN /\ abortable' \in Turn \cup {NoTurn}
      /\ listed' = listed /\ enabled' = enabled /\ loads' = loads
      /\ turns' = turns /\ clears' = clears /\ reloads' = reloads
      /\ asked' = asked
  BY <1>2 DEF Finally, models, counts
<1>7. TypeOK'
  <2>1. RTypeOK'
    BY <1>1, <1>2 DEF RTypeOK
  <2> QED
    BY <1>1, <1>4, <1>5, <1>6, <2>1 DEF TypeOK
<1>8. ASSUME NEW u \in Turn PROVE TurnInv(u)'
  <2>1. CASE u = t
    <3>1. Idle(t)'
      BY <1>2, <1>5 DEF Idle, Ended
    <3>2. Unasked(t)' /\ Counted(t)' /\ Paired(t)'
      BY <1>1, <1>2, <1>5, <1>6
         DEF TurnInv, Unasked, Counted, Paired, Ended
    <3> QED
      BY <2>1, <3>1, <3>2 DEF TurnInv
  <2>2. CASE u # t
    BY <1>1, <1>2, <1>5, <1>6, <2>2, OtherTurn DEF TypeOK
  <2> QED
    BY <2>1, <2>2
<1> QED
  BY <1>5, <1>7, <1>8 DEF IInv

\* A step that changes nothing of any question.
LEMMA TurnsRest ==
  ASSUME IInv, UNCHANGED <<rvars, closures, turns>>
  PROVE  \A u \in Turn : TurnInv(u)'
<1>1. turns \in Nat /\ \A u \in Turn : TurnInv(u)
  BY DEF IInv, TypeOK
<1> QED
  BY <1>1, OtherTurn DEF rvars, closures

LEMMA SendTurnIInv ==
  ASSUME IInv, Send, NEW t \in Turn, t = turns + 1
  PROVE  IInv'
<1>1. /\ TypeOK /\ RTypeOK /\ OneAtATime /\ TimersAreCurrent
      /\ (\A u \in Turn : TurnInv(u)) /\ MaxTokens \in Nat /\ turns \in Nat
  BY RelayAssumption DEF IInv, TypeOK, RelayAssumption
<1>2. /\ ~sending /\ t \in Turn /\ turns' = t /\ sending' = TRUE
      /\ history' = Append(history, Question(t))
      /\ abortable' = t /\ timers' = timers \cup {t}
      /\ stage' = [stage EXCEPT ![t] = "fetch"]
      /\ asked' = asked \cup {listed}
      /\ relay' = [relay EXCEPT ![t] = "asking"]
      /\ wire' = wire /\ sent' = sent /\ content' = content
      /\ buffered' = buffered /\ sawError' = sawError
      /\ UNCHANGED <<listed, enabled, loads, clears, reloads>>
  BY DEF Send, MaySend, Request, models
<1>3. timers = {} /\ \A u \in Turn : stage[u] = "none"
  BY <1>1, <1>2 DEF OneAtATime, UnderWay, TimersAreCurrent, TypeOK
<1>4. TypeOK'
  <2>1. RTypeOK'
    BY <1>1, <1>2 DEF RTypeOK
  <2>2. Question(t) \in [role : {"user", "assistant"}, turn : Turn,
                         tokens : 0..MaxTokens]
    BY <1>1, <1>2 DEF Question
  <2>3. history' \in Seq([role : {"user", "assistant"}, turn : Turn,
                          tokens : 0..MaxTokens])
    BY <1>1, <1>2, <2>2 DEF TypeOK
  <2>4. stage' \in [Turn -> {"none", "fetch", "read"}] /\ timers' \subseteq Turn
    BY <1>1, <1>2 DEF TypeOK
  <2>5. turns' \in 0..MaxTurns
    BY <1>2, RelayAssumption DEF Turn, RelayAssumption
  <2>6. asked' \subseteq BOOLEAN
    BY <1>1, <1>2 DEF TypeOK
  <2> QED
    BY <1>1, <1>2, <2>1, <2>3, <2>4, <2>5, <2>6 DEF TypeOK
<1>5. OneAtATime' /\ TimersAreCurrent'
  <2>1. stage'[t] = "fetch" /\ \A u \in Turn \ {t} : stage'[u] = "none"
    BY <1>1, <1>2, <1>3 DEF TypeOK
  <2> QED
    BY <1>2, <1>3, <2>1 DEF OneAtATime, UnderWay, TimersAreCurrent
<1>6. ASSUME NEW u \in Turn PROVE TurnInv(u)'
  <2>1. CASE u = t
    <3>1. Idle(t) /\ Unasked(t) /\ t > turns
      BY <1>1, <1>2 DEF TurnInv
    <3>2. /\ stage'[t] = "fetch" /\ relay'[t] = "asking" /\ sent'[t] = 0
          /\ wire'[t] = <<>> /\ content'[t] = 0 /\ turns' = t
      BY <1>1, <1>2, <1>3, <3>1 DEF Idle, Unasked, TypeOK, RTypeOK
    <3>3. Idle(t)' /\ Paired(t)'
      BY <3>2 DEF Idle, Paired
    <3>4. Unasked(t)'
      BY <1>1, <3>2 DEF Unasked
    <3>5. Counted(t)'
      BY <1>1, <3>2, TokensOfNone DEF Counted
    <3> QED
      BY <2>1, <3>3, <3>4, <3>5 DEF TurnInv
  <2>2. CASE u # t
    <3>1. /\ stage'[u] = stage[u] /\ relay'[u] = relay[u]
      BY <1>1, <1>2, <2>2 DEF TypeOK, RTypeOK
    <3>2. TurnInv(u) /\ relay'[u] = relay[u] /\ stage'[u] = stage[u]
      BY <1>1, <3>1
    <3>4. Idle(u)' /\ Paired(u)'
      BY <1>2, <3>2 DEF TurnInv, Idle, Paired, Open
    <3>5. Counted(u)'
      BY <1>2, <3>2 DEF TurnInv, Counted, Tokens, Carriers
    <3>3. Unasked(u)'
      <4>1. Unasked(u) /\ u \in Int
        BY <1>1 DEF TurnInv, Turn
      <4> QED
        BY <1>1, <1>2, <3>1, <4>1 DEF Unasked
    <3> QED
      BY <3>3, <3>4, <3>5 DEF TurnInv
  <2> QED
    BY <2>1, <2>2
<1> QED
  BY <1>4, <1>5, <1>6 DEF IInv

LEMMA SendIInv ==
  ASSUME IInv, Send
  PROVE  IInv'
<1>1. turns + 1 \in Turn
  BY DEF Send
<1> QED
  BY <1>1, SendTurnIInv

LEMMA RespondIInv ==
  ASSUME IInv, NEW t \in Turn, Respond(t)
  PROVE  IInv'
<1>1. /\ TypeOK /\ OneAtATime /\ TimersAreCurrent
      /\ (\A u \in Turn : TurnInv(u)) /\ turns \in Nat
  BY DEF IInv, TypeOK
<1>2. /\ stage[t] = "fetch" /\ stage' = [stage EXCEPT ![t] = "read"]
      /\ timers' = timers
      /\ relay' = relay /\ wire' = wire /\ sent' = sent /\ turns' = turns
      /\ content' = content /\ buffered' = buffered /\ sawError' = sawError
      /\ UNCHANGED <<rvars, history, sending, abortable, models, counts, asked>>
  BY DEF Respond, GoesOn, rvars, counts
<1>3. /\ stage' \in [Turn -> {"none", "fetch", "read"}] /\ stage'[t] = "read"
      /\ \A u \in Turn \ {t} : stage'[u] = stage[u]
  BY <1>1, <1>2 DEF TypeOK
<1>4. TypeOK'
  BY <1>1, <1>2, <1>3 DEF TypeOK, RTypeOK, models, counts
<1>5. OneAtATime' /\ TimersAreCurrent'
  <2>1. UnderWay' = UnderWay
    BY <1>2, <1>3 DEF UnderWay
  <2> QED
    BY <1>1, <1>2, <1>3, <2>1 DEF OneAtATime, TimersAreCurrent, TypeOK
<1>6. ASSUME NEW u \in Turn PROVE TurnInv(u)'
  <2>1. CASE u = t
    <3>1. TurnInv(t) /\ stage[t] # "none" /\ stage'[t] # "none"
      BY <1>1, <1>2, <1>3
    <3>2. Idle(t)' /\ Unasked(t)' /\ Paired(t)'
      BY <1>2, <3>1 DEF TurnInv, Idle, Unasked, Paired, Open
    <3>3. Counted(t)'
      BY <1>2, <3>1 DEF TurnInv, Counted, Tokens, Carriers
    <3> QED
      BY <2>1, <3>2, <3>3 DEF TurnInv
  <2>2. CASE u # t
    BY <1>1, <1>2, <1>3, <2>2, OtherTurn
  <2> QED
    BY <2>1, <2>2
<1> QED
  BY <1>4, <1>5, <1>6 DEF IInv

LEMMA EmptyIff ==
  ASSUME NEW s \in Seq(Piece)
  PROVE  (s = <<>>) <=> Len(s) = 0
OBVIOUS

\* What reading a piece does to the wire.
LEMMA PieceRead ==
  ASSUME RTypeOK, NEW t \in Turn, wire[t] # <<>>,
         wire' = [wire EXCEPT ![t] = Tail(@)]
  PROVE  /\ wire' \in [Turn -> Seq(Piece)]
         /\ \A u \in Turn \ {t} : wire'[u] = wire[u]
         /\ Len(wire[t]) \in Nat \ {0} /\ Len(wire'[t]) = Len(wire[t]) - 1
         /\ Head(wire[t]) = wire[t][1] /\ wire[t][1] \in Piece
         /\ \A i \in 1..Len(wire'[t]) : wire'[t][i] = wire[t][i + 1]
         /\ wire'[t] = <<>> <=> Len(wire[t]) = 1
         /\ Tokens(wire[t]) =
              Tokens(wire'[t]) + (IF wire[t][1] \in {"line", "rest"} THEN 1 ELSE 0)
         /\ Tokens(wire'[t]) \in Nat
<1>1. wire \in [Turn -> Seq(Piece)] /\ wire[t] \in Seq(Piece)
  BY DEF RTypeOK, Piece
<1>2. /\ Tail(wire[t]) \in Seq(Piece)
      /\ Len(wire[t]) \in Nat \ {0} /\ Len(Tail(wire[t])) = Len(wire[t]) - 1
      /\ Head(wire[t]) = wire[t][1] /\ wire[t][1] \in Piece
      /\ \A i \in 1..(Len(wire[t]) - 1) : Tail(wire[t])[i] = wire[t][i + 1]
  BY <1>1
<1>5. (Tail(wire[t]) = <<>>) <=> Len(wire[t]) = 1
  <2>1. (Tail(wire[t]) = <<>>) <=> Len(Tail(wire[t])) = 0
    BY <1>2, EmptyIff
  <2> QED
    BY <1>2, <2>1
<1>3. /\ wire' \in [Turn -> Seq(Piece)] /\ wire'[t] = Tail(wire[t])
      /\ \A u \in Turn \ {t} : wire'[u] = wire[u]
  BY <1>1, <1>2
<1>4. Tokens(Tail(wire[t])) \in Nat
  BY <1>2, CarriersFinite
<1> QED
  BY <1>1, <1>2, <1>3, <1>4, <1>5, TokensOfTail

LEMMA ReadIInv ==
  ASSUME IInv, NEW t \in Turn, Read(t)
  PROVE  IInv'
<1> DEFINE line == Parse(t, Head(wire[t]))
<1>1. /\ TypeOK /\ RTypeOK /\ OneAtATime /\ TimersAreCurrent /\ TurnInv(t)
      /\ (\A u \in Turn : TurnInv(u)) /\ turns \in Nat
  BY DEF IInv, TypeOK
<1>2. /\ stage[t] = "read" /\ wire[t] # <<>>
      /\ content' = [content EXCEPT ![t] = IF line = "line" THEN @ + 1 ELSE @]
      /\ sawError' = [sawError EXCEPT ![t] = @ \/ line = "error"]
      /\ buffered' = [buffered EXCEPT ![t] = line = "head"]
      /\ wire' = [wire EXCEPT ![t] = Tail(@)]
      /\ relay' = relay /\ sent' = sent /\ stage' = stage /\ turns' = turns
      /\ UNCHANGED <<history, sending, abortable, timers, stage, models, counts,
                     asked>>
  BY DEF Read, counts
<1>3. /\ wire' \in [Turn -> Seq(Piece)]
      /\ \A u \in Turn \ {t} : wire'[u] = wire[u]
      /\ Len(wire[t]) \in Nat \ {0} /\ Len(wire'[t]) = Len(wire[t]) - 1
      /\ Head(wire[t]) = wire[t][1] /\ wire[t][1] \in Piece
      /\ \A i \in 1..Len(wire'[t]) : wire'[t][i] = wire[t][i + 1]
      /\ wire'[t] = <<>> <=> Len(wire[t]) = 1
      /\ Tokens(wire[t]) =
           Tokens(wire'[t]) + (IF wire[t][1] \in {"line", "rest"} THEN 1 ELSE 0)
      /\ Tokens(wire'[t]) \in Nat
  BY <1>1, <1>2, PieceRead
<1>4. /\ line = "line" <=> wire[t][1] \in {"line", "rest"}
      /\ line = "head" <=> wire[t][1] = "head"
  <2>1. wire[t][1] = "rest" => buffered[t]
    BY <1>1, <1>2 DEF TurnInv, Paired
  <2> QED
    BY <1>3, <2>1 DEF Parse, Piece
<1> HIDE DEF line
<1>5. /\ content' \in [Turn -> Nat] /\ buffered' \in [Turn -> BOOLEAN]
      /\ sawError' \in [Turn -> BOOLEAN]
      /\ content'[t] = content[t] + (IF wire[t][1] \in {"line", "rest"} THEN 1 ELSE 0)
      /\ \A u \in Turn \ {t} : /\ content'[u] = content[u]
                                /\ buffered'[u] = buffered[u]
                                /\ sawError'[u] = sawError[u]
  BY <1>1, <1>2, <1>4 DEF TypeOK
<1>6. buffered'[t] <=> wire[t][1] = "head"
  BY <1>1, <1>2, <1>4 DEF TypeOK
<1>7. TypeOK' /\ OneAtATime' /\ TimersAreCurrent'
  <2>1. RTypeOK'
    BY <1>1, <1>2, <1>3 DEF RTypeOK, Piece
  <2> QED
    BY <1>2, <1>5, <2>1, ControlStays
<1>8. ASSUME NEW u \in Turn PROVE TurnInv(u)'
  <2>1. CASE u = t
    <3>1. Idle(t)' /\ Unasked(t)'
      BY <1>1, <1>2 DEF TurnInv, Idle, Unasked
    <3>2. Counted(t)'
      <4>1. Counted(t) /\ content[t] \in Nat
        BY <1>1 DEF TurnInv, TypeOK
      <4> QED
        BY <1>2, <1>3, <1>5, <4>1 DEF Counted
    <3>3. Paired(t)'
      <4>1. Paired(t)
        BY <1>1 DEF TurnInv
      <4>2. wire'[t] # <<>> /\ wire'[t][1] = "rest" => buffered'[t]
        <5>1. ASSUME wire'[t] # <<>>, wire'[t][1] = "rest" PROVE wire[t][1] = "head"
          <6>1. Len(wire[t]) >= 2 /\ 1 \in 1..Len(wire'[t]) /\ 1 \in 1..(Len(wire[t]) - 1)
            BY <1>3, <5>1
          <6> QED
            BY <1>3, <4>1, <5>1, <6>1 DEF Paired
        <5> QED
          BY <1>6, <5>1
      <4>3. ASSUME NEW i \in 1..(Len(wire'[t]) - 1), wire'[t][i + 1] = "rest"
            PROVE  wire'[t][i] = "head"
        <5>1. /\ i \in 1..Len(wire'[t]) /\ i + 1 \in 1..Len(wire'[t])
              /\ i + 1 \in 1..(Len(wire[t]) - 1)
          BY <1>3
        <5>2. wire'[t][i] = wire[t][i + 1] /\ wire'[t][i + 1] = wire[t][(i + 1) + 1]
          BY <1>3, <5>1
        <5> QED
          BY <4>1, <4>3, <5>1, <5>2 DEF Paired
      <4>4. Open(t) => Open(t)'
        <5>1. CASE Len(wire[t]) = 1
          BY <1>2, <1>3, <1>6, <5>1 DEF Open
        <5>2. CASE Len(wire[t]) # 1
          <6>1. /\ Len(wire'[t]) \in 1..Len(wire'[t])
                /\ Len(wire'[t]) + 1 = Len(wire[t]) /\ wire'[t] # <<>>
            BY <1>3, <5>2
          <6> QED
            BY <1>2, <1>3, <6>1 DEF Open
        <5> QED
          BY <5>1, <5>2
      <4> QED
        BY <1>2, <4>1, <4>2, <4>3, <4>4 DEF Paired
    <3> QED
      BY <2>1, <3>1, <3>2, <3>3 DEF TurnInv
  <2>2. CASE u # t
    BY <1>1, <1>2, <1>3, <1>5, <2>2, OtherTurn
  <2> QED
    BY <2>1, <2>2
<1> QED
  BY <1>7, <1>8 DEF IInv

LEMMA NewChatIInv ==
  ASSUME IInv, NewChat
  PROVE  IInv'
<1>1. \A u \in Turn : TurnInv(u)'
  BY TurnsRest DEF NewChat
<1>2. TypeOK'
  BY DEF IInv, NewChat, StaysSending, TypeOK, RTypeOK, rvars, closures, models
<1>3. OneAtATime' /\ TimersAreCurrent'
  BY DEF IInv, NewChat, StaysSending, OneAtATime, UnderWay, TimersAreCurrent,
         closures
<1> QED
  BY <1>1, <1>2, <1>3 DEF IInv

LEMMA ModelsIInv ==
  ASSUME IInv, LoadModels \/ ModelsListed \/ NoModels
  PROVE  IInv'
<1>1. \A u \in Turn : TurnInv(u)'
  BY TurnsRest DEF LoadModels, ModelsListed, NoModels, counts
<1>2. /\ UNCHANGED <<rvars, history, sending, abortable, timers, closures, counts,
                     asked>>
      /\ loads' \in Nat
  BY DEF IInv, LoadModels, ModelsListed, NoModels, TypeOK
<1>3. listed' \in BOOLEAN /\ enabled' \in BOOLEAN
  BY DEF IInv, LoadModels, ModelsListed, NoModels, TypeOK
<1>4. TypeOK'
  BY <1>2, <1>3 DEF IInv, TypeOK, RTypeOK, rvars, closures, counts
<1>5. OneAtATime' /\ TimersAreCurrent'
  BY <1>2 DEF IInv, OneAtATime, UnderWay, TimersAreCurrent, closures
<1> QED
  BY <1>1, <1>4, <1>5 DEF IInv

\* A reload leaves no send() under way.
LEMMA ReloadIInv ==
  ASSUME IInv, Reload
  PROVE  IInv'
<1> DEFINE ts == {t \in Turn : stage[t] # "none"}
<1>1. /\ TypeOK /\ RTypeOK /\ (\A u \in Turn : TurnInv(u))
      /\ turns \in Nat /\ MaxTokens \in Nat
  BY RelayAssumption DEF IInv, TypeOK, RelayAssumption
<1>2. /\ relay' = [t \in Turn |-> IF t \in ts THEN "off" ELSE relay[t]]
      /\ wire' = [t \in Turn |-> IF t \in ts THEN <<>> ELSE wire[t]]
      /\ sent' = [t \in Turn |-> IF t \in ts THEN 0 ELSE sent[t]]
  BY DEF Reload, Hangup
<1>3. RTypeOK'
  <2>1. \A u \in Turn : relay'[u] \in {"off", "asking", "between", "within",
                                      "whole", "failed"}
    BY <1>1, <1>2 DEF RTypeOK
  <2>2. \A u \in Turn : wire'[u] \in Seq({"line", "head", "rest", "error"})
    BY <1>1, <1>2 DEF RTypeOK
  <2>3. \A u \in Turn : sent'[u] \in Nat
    BY <1>1, <1>2 DEF RTypeOK
  <2> QED
    BY <1>2, <2>1, <2>2, <2>3 DEF RTypeOK
<1>4. /\ stage' = [u \in Turn |-> "none"] /\ content' = [u \in Turn |-> 0]
      /\ buffered' = [u \in Turn |-> FALSE] /\ sawError' = [u \in Turn |-> FALSE]
      /\ timers' = {} /\ abortable' = NoTurn /\ sending' = FALSE
      /\ listed' = FALSE /\ enabled' = FALSE /\ loads' = 1
      /\ history' = history /\ turns' = turns /\ clears' = clears
      /\ reloads' = reloads + 1 /\ asked' = asked
  BY DEF Reload, ForAll
<1>5. TypeOK'
  <2>1. /\ stage' \in [Turn -> {"none", "fetch", "read"}]
        /\ content' \in [Turn -> Nat]
        /\ buffered' \in [Turn -> BOOLEAN] /\ sawError' \in [Turn -> BOOLEAN]
    BY <1>4
  <2>2. /\ sending' \in BOOLEAN /\ listed' \in BOOLEAN /\ enabled' \in BOOLEAN
    BY <1>4, Zenon
  <2>3. reloads' \in Nat /\ loads' \in Nat
    BY <1>1, <1>4 DEF TypeOK
  <2> QED
    BY <1>1, <1>3, <1>4, <2>1, <2>2, <2>3 DEF TypeOK
<1>6. OneAtATime' /\ TimersAreCurrent'
  BY <1>4 DEF OneAtATime, UnderWay, TimersAreCurrent
<1>7. ASSUME NEW u \in Turn PROVE TurnInv(u)'
  <2>1. /\ stage'[u] = "none" /\ content'[u] = 0 /\ ~buffered'[u] /\ ~sawError'[u]
    BY <1>4
  <2>2. CASE stage[u] # "none"
    <3>1. relay'[u] = "off" /\ wire'[u] = <<>> /\ sent'[u] = 0
      BY <1>2, <2>2
    <3> QED
      BY <1>1, <2>1, <3>1 DEF TurnInv, Idle, Unasked, Counted, Paired
  <2>3. CASE stage[u] = "none"
    <3>1. relay'[u] = relay[u] /\ wire'[u] = wire[u] /\ sent'[u] = sent[u]
      BY <1>2, <2>3
    <3>2. /\ relay[u] \in {"off", "whole", "failed"} /\ wire[u] = <<>>
          /\ Unasked(u) /\ sent[u] <= MaxTokens
      BY <1>1, <2>3 DEF TurnInv, Idle, Counted
    <3> QED
      BY <1>4, <2>1, <3>1, <3>2 DEF TurnInv, Idle, Unasked, Counted, Paired
  <2> QED
    BY <2>2, <2>3
<1> QED
  BY <1>5, <1>6, <1>7 DEF IInv

\* Every step keeps the invariant.
LEMMA NextIInv == IInv /\ [Next]_vars => IInv'
<1> SUFFICES ASSUME IInv, [Next]_vars PROVE IInv'
  OBVIOUS
<1>1. CASE LoadModels \/ ModelsListed \/ NoModels
  BY <1>1, ModelsIInv
<1>2. CASE Send
  BY <1>2, SendIInv
<1>3. CASE Stop
  BY <1>3, AbortIInv DEF Stop
<1>4. CASE NewChat
  BY <1>4, NewChatIInv
<1>5. CASE Reload
  BY <1>5, ReloadIInv
<1>6. ASSUME NEW t \in Turn, Wait(t) PROVE IInv'
  <2>1. CASE Respond(t)
    BY <2>1, RespondIInv
  <2>2. CASE Fail(t)
    BY <2>2, FailIInv
  <2>3. CASE Read(t)
    BY <2>3, ReadIInv
  <2>4. CASE EndInError(t)
    BY <2>4, HungUp DEF EndInError
  <2>5. CASE EndInReply(t)
    BY <2>5, EndInReplyIInv
  <2> QED
    BY <1>6, <2>1, <2>2, <2>3, <2>4, <2>5 DEF Wait
<1>7. ASSUME NEW t \in Turn, TimerFires(t) PROVE IInv'
  BY <1>7, AbortIInv DEF TimerFires
<1>8. ASSUME NEW t \in Turn, Relay(t), PageRests PROVE IInv'
  BY <1>8, RelayIInv
<1>9. CASE UNCHANGED vars
  <2>1. \A u \in Turn : TurnInv(u)'
    BY <1>9, TurnsRest DEF vars, counts
  <2>2. TypeOK'
    BY <1>9 DEF IInv, TypeOK, RTypeOK, vars, rvars, closures, models, counts
  <2>3. OneAtATime' /\ TimersAreCurrent'
    BY <1>9 DEF IInv, OneAtATime, UnderWay, TimersAreCurrent, vars, closures
  <2> QED
    BY <2>1, <2>2, <2>3 DEF IInv
<1> QED
  BY <1>1, <1>2, <1>3, <1>4, <1>5, <1>6, <1>7, <1>8, <1>9 DEF Next, PageRests

THEOREM PageInvariant == Spec => []IInv
BY InitIInv, NextIInv, PTL DEF Spec

\* The page's variables keep their types, and no reply has more tokens than
\* Ollama may send (chat.html:692-731).
THEOREM PageTypes == Spec => []TypeOK
<1>1. IInv => TypeOK
  BY DEF IInv
<1> QED
  BY <1>1, PageInvariant, PTL

\* One reply at a time is under way, and the button knows (chat.html:644-647).
THEOREM PageOneAtATime == Spec => []OneAtATime
<1>1. IInv => OneAtATime
  BY DEF IInv
<1> QED
  BY <1>1, PageInvariant, PTL

\* A timer is set just while its send() is under way, and none is left to
\* abort a later question (chat.html:677-680, 760).
THEOREM PageTimersAreCurrent == Spec => []TimersAreCurrent
<1>1. IInv => TimersAreCurrent
  BY DEF IInv
<1> QED
  BY <1>1, PageInvariant, PTL

-----------------------------------------------------------------------------
Message == [role : {"user", "assistant"}, turn : Turn, tokens : 0..MaxTokens]

LEMMA HistoryType == IInv => history \in Seq(Message)
BY DEF IInv, TypeOK, Message

\* The steps by what they do to the conversation.
LEMMA HistorySteps ==
  ASSUME IInv, [Next]_vars
  PROVE  \/ history' = history /\ sending' = sending /\ abortable' = abortable
         \/ history' = history /\ sending' = FALSE
         \/ history' = <<>>
         \/ /\ turns + 1 \in Turn /\ turns' = turns + 1
            /\ sending' = TRUE /\ abortable' = turns + 1
            /\ history' = Append(history, Question(turns + 1))
         \/ \E t \in Turn :
              /\ EndInReply(t) /\ sending /\ abortable = t /\ sending' = FALSE
              /\ history' = Append(history, Reply(t, content[t]))
<1>1. CASE LoadModels \/ ModelsListed \/ NoModels
  BY <1>1 DEF LoadModels, ModelsListed, NoModels
<1>2. CASE Send
  BY <1>2 DEF Send
<1>3. CASE Stop \/ \E t \in Turn : TimerFires(t)
  BY <1>3 DEF Stop, TimerFires, Abort, Fail, Finally
<1>4. CASE NewChat
  BY <1>4 DEF NewChat
<1>5. CASE Reload
  BY <1>5 DEF Reload
<1>6. ASSUME NEW t \in Turn, Respond(t) \/ Read(t)
      PROVE  history' = history /\ sending' = sending /\ abortable' = abortable
  BY <1>6 DEF Respond, Read
<1>7. ASSUME NEW t \in Turn, Fail(t) \/ EndInError(t)
      PROVE  history' = history /\ sending' = FALSE
  BY <1>7 DEF Fail, EndInError, Finally
<1>8. ASSUME NEW t \in Turn, EndInReply(t)
      PROVE  /\ sending /\ abortable = t /\ sending' = FALSE
             /\ history' = Append(history, Reply(t, content[t]))
  <2>1. stage[t] # "none" /\ Finally(t)
    BY <1>8 DEF EndInReply
  <2>2. sending /\ abortable = t
    BY <2>1, EndedTurn
  <2> QED
    BY <1>8, <2>1, <2>2 DEF EndInReply, Finally
<1>9. ASSUME NEW t \in Turn, Relay(t), PageRests
      PROVE  history' = history /\ sending' = sending /\ abortable' = abortable
  BY <1>9 DEF PageRests
<1>10. CASE UNCHANGED vars
  BY <1>10 DEF vars
<1> QED
  BY <1>1, <1>2, <1>3, <1>4, <1>5, <1>6, <1>7, <1>8, <1>9, <1>10
     DEF Next, Wait, PageRests

LEMMA AppendedMessage ==
  ASSUME NEW h \in Seq(Message), NEW m \in Message
  PROVE  /\ Len(h) \in Nat /\ Len(Append(h, m)) = Len(h) + 1
         /\ Append(h, m)[Len(h) + 1] = m
         /\ \A i \in 1..Len(h) : Append(h, m)[i] = h[i]
         /\ (h = <<>>) <=> Len(h) = 0
OBVIOUS

\* A reply is put behind its question.
LEMMA RepliesFollow ==
  IInv /\ Asking /\ ReplyFollowsQuestion /\ [Next]_vars
    => Asking' /\ ReplyFollowsQuestion'
<1> SUFFICES ASSUME IInv, Asking, ReplyFollowsQuestion, [Next]_vars
             PROVE  Asking' /\ ReplyFollowsQuestion'
  OBVIOUS
<1>1. CASE history' = history /\ sending' = sending /\ abortable' = abortable
  BY <1>1 DEF Asking, ReplyFollowsQuestion, Question
<1>2. CASE history' = history /\ sending' = FALSE
  BY <1>2 DEF Asking, ReplyFollowsQuestion, Question
<1>3. CASE history' = <<>>
  BY <1>3 DEF Asking, ReplyFollowsQuestion
<1>4. ASSUME NEW t \in Turn, sending' = TRUE, abortable' = t,
             history' = Append(history, Question(t))
      PROVE  Asking' /\ ReplyFollowsQuestion'
  <2>1. Question(t) \in Message
    BY RelayAssumption DEF Question, Message, RelayAssumption
  <2>2. /\ Len(history) \in Nat /\ Len(history') = Len(history) + 1
        /\ history'[Len(history) + 1] = Question(t)
        /\ \A i \in 1..Len(history) : history'[i] = history[i]
    BY <1>4, <2>1, HistoryType, AppendedMessage
  <2>3. Asking'
    BY <1>4, <2>2 DEF Asking, Question
  <2>4. ASSUME NEW i \in 1..Len(history'), history'[i].role = "assistant"
        PROVE  i = 1 \/ history'[i - 1] = Question(history'[i].turn)
    <3>1. i \in 1..Len(history)
      BY <2>2, <2>4 DEF Question
    <3>2. CASE i # 1
      <4>1. i - 1 \in 1..Len(history)
        BY <2>2, <3>1, <3>2
      <4> QED
        BY <2>2, <2>4, <3>1, <3>2, <4>1 DEF ReplyFollowsQuestion
    <3> QED
      BY <3>2
  <2> QED
    BY <2>3, <2>4 DEF ReplyFollowsQuestion, Question
<1>5. ASSUME NEW t \in Turn, EndInReply(t), sending, abortable = t,
             sending' = FALSE, history' = Append(history, Reply(t, content[t]))
      PROVE  Asking' /\ ReplyFollowsQuestion'
  <2>1. Reply(t, content[t]) \in Message
    <3>1. /\ content[t] \in Nat /\ sent[t] \in Nat /\ sent[t] <= MaxTokens
          /\ content[t] + Tokens(wire[t]) = sent[t] /\ wire[t] = <<>>
      BY <1>5 DEF IInv, TypeOK, RTypeOK, TurnInv, Counted, EndInReply
    <3>2. content[t] \in 0..MaxTokens
      BY <3>1, TokensOfNone, RelayAssumption DEF RelayAssumption
    <3> QED
      BY <3>2 DEF Reply, Message
  <2>2. /\ Len(history) \in Nat /\ Len(history') = Len(history) + 1
        /\ history'[Len(history) + 1] = Reply(t, content[t])
        /\ \A i \in 1..Len(history) : history'[i] = history[i]
        /\ (history = <<>>) <=> Len(history) = 0
    BY <1>5, <2>1, HistoryType, AppendedMessage
  <2>3. Asking'
    BY <1>5 DEF Asking
  <2>4. ASSUME NEW i \in 1..Len(history'), history'[i].role = "assistant"
        PROVE  i = 1 \/ history'[i - 1] = Question(history'[i].turn)
    <3>1. CASE i = Len(history) + 1 /\ i # 1
      <4>1. history[Len(history)] = Question(t) /\ i - 1 = Len(history)
              /\ Len(history) \in 1..Len(history)
        BY <1>5, <2>2, <3>1 DEF Asking
      <4> QED
        BY <2>2, <3>1, <4>1 DEF Reply
    <3>2. CASE i \in 1..Len(history) /\ i # 1
      <4>1. i - 1 \in 1..Len(history)
        BY <2>2, <3>2
      <4> QED
        BY <2>2, <2>4, <3>2, <4>1 DEF ReplyFollowsQuestion
    <3> QED
      BY <2>2, <3>1, <3>2
  <2> QED
    BY <2>3, <2>4 DEF ReplyFollowsQuestion, Question
<1> QED
  BY <1>1, <1>2, <1>3, <1>4, <1>5, HistorySteps

\* A reply stands behind its own question (chat.html:663, 743).
THEOREM RepliesStandBehindQuestions == Spec => []ReplyFollowsQuestion
<1>1. Init => Asking /\ ReplyFollowsQuestion
  BY DEF Init, Asking, ReplyFollowsQuestion
<1> QED
  BY <1>1, InitIInv, NextIInv, RepliesFollow, PTL DEF Spec

-----------------------------------------------------------------------------
\* Nothing more happens to a question whose send() is over.
LEMMA DoneStays ==
  ASSUME IInv, [Next]_vars, NEW u \in Turn, stage[u] = "none", u <= turns
  PROVE  /\ relay'[u] = relay[u] /\ sent'[u] = sent[u] /\ stage'[u] = "none"
         /\ u <= turns'
<1>1. /\ TypeOK /\ RTypeOK /\ turns \in Nat /\ Idle(u)
  BY DEF IInv, TypeOK, TurnInv
<1>2. ASSUME NEW t \in Turn, stage[t] # "none", Hangup({t}), Finally(t)
      PROVE  /\ relay'[u] = relay[u] /\ sent'[u] = sent[u] /\ stage'[u] = "none"
             /\ u <= turns'
  <2>1. u # t
    BY <1>2
  <2> QED
    BY <1>1, <1>2, <2>1 DEF Hangup, Finally, counts, TypeOK
<1>3. CASE LoadModels \/ ModelsListed \/ NoModels
  BY <1>3 DEF LoadModels, ModelsListed, NoModels, rvars, closures, counts
<1>4. CASE Send
  <2>1. /\ turns' = turns + 1 /\ sent' = sent
        /\ relay' = [relay EXCEPT ![turns + 1] = "asking"]
        /\ stage' = [stage EXCEPT ![turns + 1] = "fetch"]
    BY <1>4 DEF Send, Request
  <2>2. u # turns + 1 /\ u <= turns + 1
    BY <1>1 DEF Turn
  <2> QED
    BY <1>1, <2>1, <2>2 DEF TypeOK, RTypeOK
<1>5. CASE Stop \/ \E t \in Turn : TimerFires(t)
  <2>1. PICK t \in Turn : Fail(t)
    BY <1>1, <1>5 DEF Stop, TimerFires, Abort, TypeOK
  <2> QED
    BY <1>2, <2>1 DEF Fail
<1>6. CASE NewChat
  BY <1>6 DEF NewChat, rvars, closures
<1>7. CASE Reload
  BY <1>1, <1>7 DEF Reload, Hangup, ForAll
<1>8. ASSUME NEW t \in Turn, Wait(t)
      PROVE  /\ relay'[u] = relay[u] /\ sent'[u] = sent[u] /\ stage'[u] = "none"
             /\ u <= turns'
  <2>1. CASE Respond(t)
    BY <1>1, <2>1 DEF Respond, rvars, counts, TypeOK
  <2>2. CASE Fail(t)
    BY <1>2, <2>2 DEF Fail
  <2>3. CASE Read(t)
    BY <2>3 DEF Read, counts
  <2>4. CASE EndInError(t)
    BY <1>2, <2>4 DEF EndInError
  <2>5. CASE EndInReply(t)
    BY <1>1, <2>5 DEF EndInReply, Finally, rvars, counts, TypeOK
  <2> QED
    BY <1>8, <2>1, <2>2, <2>3, <2>4, <2>5 DEF Wait
<1>9. ASSUME NEW t \in Turn, Relay(t), PageRests
      PROVE  /\ relay'[u] = relay[u] /\ sent'[u] = sent[u] /\ stage'[u] = "none"
             /\ u <= turns'
  <2>1. relay[t] \in {"asking", "between", "within"}
    BY <1>9 DEF Relay, Refuse, Accept, PassLine, PassHead, PassRest, PassError,
                Finish, Break, Move
  <2>2. u # t
    BY <1>1, <2>1 DEF Idle
  <2>3. /\ \E to : relay' = [relay EXCEPT ![t] = to]
        /\ sent' = sent \/ sent' = [sent EXCEPT ![t] = @ + 1]
    BY <1>9 DEF Relay, Refuse, Accept, PassLine, PassHead, PassRest, PassError,
                Finish, Break, Move
  <2> QED
    BY <1>1, <1>9, <2>2, <2>3 DEF PageRests, closures, counts, RTypeOK
<1>10. CASE UNCHANGED vars
  BY <1>10 DEF vars, rvars, closures, counts
<1> QED
  BY <1>3, <1>4, <1>5, <1>6, <1>7, <1>8, <1>9, <1>10 DEF Next, PageRests

\* Lines stay framed where nothing changes, and where there is nothing.
LEMMA FramedStays ==
  ASSUME NEW u \in Turn, Framed(u), relay'[u] = relay[u], wire'[u] = wire[u],
         buffered'[u] = buffered[u], sawError'[u] = sawError[u],
         stage'[u] # "none" => stage[u] # "none"
  PROVE  Framed(u)'
BY DEF Framed, Open

LEMMA FramedIdle ==
  ASSUME NEW u \in Turn, IInv', stage'[u] = "none"
  PROVE  Framed(u)'
<1>1. Idle(u)'
  BY DEF IInv, TurnInv
<1> QED
  BY <1>1 DEF Idle, Framed, Open

\* A piece leaves the lines framed if no error line comes on top of a half.
LEMMA SaidFramed ==
  ASSUME RTypeOK, NEW t \in Turn, NEW p \in Piece, Say(t, p), Framed(t),
         PageRests, p = "error" => ~Open(t),
         relay'[t] \in {"asking", "between"} => p # "head",
         relay'[t] = "failed" => p = "error"
  PROVE  Framed(t)'
<1>1. /\ wire'[t] # <<>> /\ Len(wire[t]) \in Nat
      /\ Len(wire'[t]) = Len(wire[t]) + 1
      /\ wire'[t][Len(wire'[t])] = p
      /\ \A i \in 1..Len(wire[t]) : wire'[t][i] = wire[t][i]
  BY SaidPiece
<1>2. (wire[t] = <<>>) <=> Len(wire[t]) = 0
  BY DEF RTypeOK
<1>3. buffered' = buffered
  BY DEF PageRests, closures
<1>4. wire'[t][1] = "error" => ~buffered'[t]
  <2>1. CASE wire[t] = <<>>
    BY <1>1, <1>2, <1>3, <2>1 DEF Open
  <2>2. CASE wire[t] # <<>>
    BY <1>1, <1>2, <1>3, <2>2 DEF Framed
  <2> QED
    BY <2>1, <2>2
<1>5. ASSUME NEW i \in 1..(Len(wire'[t]) - 1), wire'[t][i + 1] = "error"
      PROVE  wire'[t][i] # "head"
  <2>1. CASE i = Len(wire[t])
    BY <1>1, <1>2, <1>5, <2>1 DEF Open
  <2>2. CASE i # Len(wire[t])
    <3>1. i \in 1..(Len(wire[t]) - 1) /\ i \in 1..Len(wire[t])
            /\ i + 1 \in 1..Len(wire[t])
      BY <1>1, <1>5, <2>2
    <3> QED
      BY <1>1, <1>5, <3>1 DEF Framed
  <2> QED
    BY <2>1, <2>2
<1>6. relay'[t] \in {"asking", "between"} => ~Open(t)'
  BY <1>1 DEF Open
<1> QED
  BY <1>1, <1>4, <1>5, <1>6 DEF Framed

\* Where Ollama's stream does not break within a line, the relay frames.
LEMMA RelayFramed ==
  ASSUME "within" \notin Breaks, IInv, NEW t \in Turn, Framed(t), Relay(t),
         PageRests
  PROVE  Framed(t)'
<1>1. RTypeOK /\ (Framed(t) /\ relay[t] \in {"asking", "between"} => ~Open(t))
  BY DEF IInv, TypeOK, Framed
<1>2. stage' = stage /\ buffered' = buffered /\ sawError' = sawError
  BY DEF PageRests, closures
<1>3. ASSUME NEW from, from \subseteq {"asking", "between"},
             Move(t, from, "failed"), Say(t, "error")
      PROVE  Framed(t)'
  <2>1. relay'[t] = "failed" /\ relay[t] \in {"asking", "between"}
    BY <1>1, <1>3 DEF Move, RTypeOK
  <2> QED
    BY <1>1, <1>3, <2>1, SaidFramed DEF Piece
<1>4. ASSUME NEW from, NEW to, from \subseteq {"asking", "between"},
             to \in {"between", "whole"}, Move(t, from, to), wire' = wire
      PROVE  Framed(t)'
  <2>1. relay'[t] = to /\ relay[t] \in {"asking", "between"}
    BY <1>1, <1>4 DEF Move, RTypeOK
  <2> QED
    BY <1>1, <1>2, <1>4, <2>1 DEF Framed, Open
<1>5. ASSUME NEW p \in {"line", "head", "rest"}, NEW at, NEW to \in {"between", "within"},
             Move(t, {at}, to), Say(t, p), to = "between" => p # "head"
      PROVE  Framed(t)'
  <2>1. relay'[t] = to
    BY <1>1, <1>5 DEF Move, RTypeOK
  <2> QED
    BY <1>1, <1>5, <2>1, SaidFramed DEF Piece
<1>6. CASE Refuse(t)
  BY <1>3, <1>6 DEF Refuse, SayError
<1>7. CASE Accept(t)
  BY <1>4, <1>7 DEF Accept
<1>8. CASE PassLine(t)
  BY <1>5, <1>8 DEF PassLine
<1>9. CASE PassHead(t)
  BY <1>5, <1>9 DEF PassHead
<1>10. CASE PassRest(t)
  BY <1>5, <1>10 DEF PassRest
<1>11. CASE PassError(t)
  BY <1>3, <1>11 DEF PassError
<1>12. CASE Finish(t)
  BY <1>4, <1>12 DEF Finish
<1>13. CASE Break(t)
  <2>1. {"between", "within"} \cap Breaks \subseteq {"asking", "between"}
    OBVIOUS
  <2> QED
    BY <1>3, <1>13, <2>1 DEF Break, SayError
<1> QED
  BY <1>6, <1>7, <1>8, <1>9, <1>10, <1>11, <1>12, <1>13 DEF Relay

\* Reading a piece leaves the rest framed.
LEMMA ReadFramed ==
  ASSUME IInv, NEW t \in Turn, Framed(t), Read(t)
  PROVE  Framed(t)'
<1> DEFINE line == Parse(t, Head(wire[t]))
<1>1. /\ TypeOK /\ RTypeOK /\ Paired(t) /\ Framed(t)
      /\ stage[t] = "read" /\ wire[t] # <<>>
      /\ sawError' = [sawError EXCEPT ![t] = @ \/ line = "error"]
      /\ buffered' = [buffered EXCEPT ![t] = line = "head"]
      /\ wire' = [wire EXCEPT ![t] = Tail(@)]
      /\ relay' = relay /\ stage' = stage
  BY DEF Read, IInv, TypeOK, TurnInv
<1>2. /\ Len(wire[t]) \in Nat \ {0} /\ Len(wire'[t]) = Len(wire[t]) - 1
      /\ Head(wire[t]) = wire[t][1] /\ wire[t][1] \in Piece
      /\ \A i \in 1..Len(wire'[t]) : wire'[t][i] = wire[t][i + 1]
      /\ wire'[t] = <<>> <=> Len(wire[t]) = 1
  BY <1>1, PieceRead
<1>3. /\ line = "head" <=> wire[t][1] = "head"
      /\ line = "error" <=> wire[t][1] = "error"
  BY <1>1, <1>2 DEF Parse, Piece, Paired, Framed
<1> HIDE DEF line
<1>4. buffered'[t] <=> wire[t][1] = "head"
  BY <1>1, <1>3 DEF TypeOK
<1>5. sawError[t] \/ wire[t][1] = "error" => sawError'[t]
  BY <1>1, <1>3 DEF TypeOK
<1>6. wire'[t] # <<>> => Len(wire'[t]) \in 1..Len(wire'[t])
                          /\ Len(wire'[t]) + 1 = Len(wire[t])
  BY <1>2
<1>7. wire'[t] # <<>> /\ wire'[t][1] = "error" => ~buffered'[t]
  <2>1. ASSUME wire'[t] # <<>>, wire'[t][1] = "error" PROVE wire[t][1] # "head"
    <3>1. 1 \in 1..Len(wire'[t]) /\ 1 \in 1..(Len(wire[t]) - 1)
      BY <1>2, <2>1
    <3> QED
      BY <1>1, <1>2, <2>1, <3>1 DEF Framed
  <2> QED
    BY <1>4, <2>1
<1>8. ASSUME NEW i \in 1..(Len(wire'[t]) - 1), wire'[t][i + 1] = "error"
      PROVE  wire'[t][i] # "head"
  <2>1. /\ i \in 1..Len(wire'[t]) /\ i + 1 \in 1..Len(wire'[t])
        /\ i + 1 \in 1..(Len(wire[t]) - 1)
    BY <1>2
  <2>2. wire'[t][i] = wire[t][i + 1] /\ wire'[t][i + 1] = wire[t][(i + 1) + 1]
    BY <1>2, <2>1
  <2> QED
    BY <1>1, <1>8, <2>1, <2>2 DEF Framed
<1>9. Open(t)' => Open(t)
  <2>1. CASE wire'[t] = <<>>
    BY <1>1, <1>2, <1>4, <2>1 DEF Open
  <2>2. CASE wire'[t] # <<>>
    BY <1>1, <1>2, <1>6, <2>2 DEF Open
  <2> QED
    BY <2>1, <2>2
<1>10. relay[t] = "failed" =>
         sawError'[t] \/ (wire'[t] # <<>> /\ wire'[t][Len(wire'[t])] = "error")
  <2>1. CASE wire'[t] = <<>>
    BY <1>1, <1>2, <1>5, <2>1 DEF Framed
  <2>2. CASE wire'[t] # <<>>
    BY <1>1, <1>2, <1>5, <1>6, <2>2 DEF Framed
  <2> QED
    BY <2>1, <2>2
<1> QED
  BY <1>1, <1>7, <1>8, <1>9, <1>10 DEF Framed

AllFramed == \A u \in Turn : Framed(u)

LEMMA NextFramed ==
  ASSUME "within" \notin Breaks, IInv, AllFramed, [Next]_vars
  PROVE  AllFramed'
<1> SUFFICES ASSUME NEW u \in Turn PROVE Framed(u)'
  BY DEF AllFramed
<1>1. Framed(u) /\ IInv' /\ TypeOK /\ RTypeOK
  BY NextIInv DEF AllFramed, IInv, TypeOK
<1>2. ASSUME NEW t \in Turn, stage[t] # "none", Hangup({t}), Finally(t)
      PROVE  Framed(u)'
  <2>1. CASE u = t
    <3>1. stage'[t] = "none"
      BY <1>2, EndedTurn
    <3> QED
      BY <1>1, <2>1, <3>1, FramedIdle
  <2>2. CASE u # t
    <3>1. relay'[u] = relay[u] /\ wire'[u] = wire[u]
      BY <1>2, <2>2 DEF Hangup
    <3>2. /\ stage'[u] = stage[u] /\ buffered'[u] = buffered[u]
          /\ sawError'[u] = sawError[u]
      BY <1>2, <2>2, EndedTurn
    <3> QED
      BY <1>1, <3>1, <3>2, FramedStays
  <2> QED
    BY <2>1, <2>2
<1>3. CASE LoadModels \/ ModelsListed \/ NoModels
  BY <1>1, <1>3, FramedStays
     DEF LoadModels, ModelsListed, NoModels, rvars, closures
<1>4. CASE Send
  <2>1. /\ turns + 1 \in Turn /\ relay' = [relay EXCEPT ![turns + 1] = "asking"]
        /\ stage' = [stage EXCEPT ![turns + 1] = "fetch"]
        /\ wire' = wire /\ buffered' = buffered /\ sawError' = sawError
    BY <1>4 DEF Send, Request
  <2>2. CASE u = turns + 1
    <3>1. /\ turns \in Nat /\ Idle(u) /\ Unasked(u)
      BY DEF IInv, TypeOK, TurnInv
    <3>2. stage[u] = "none"
      BY <2>2, <3>1 DEF Unasked
    <3>3. wire'[u] = <<>> /\ ~buffered'[u] /\ relay'[u] = "asking"
      BY <1>1, <2>1, <2>2, <3>1, <3>2 DEF Idle, RTypeOK
    <3> QED
      BY <3>3 DEF Framed, Open
  <2>3. CASE u # turns + 1
    <3>1. relay'[u] = relay[u] /\ stage'[u] = stage[u]
      BY <1>1, <2>1, <2>3 DEF TypeOK, RTypeOK
    <3> QED
      BY <1>1, <2>1, <3>1, FramedStays
  <2> QED
    BY <2>2, <2>3
<1>5. CASE Stop \/ \E t \in Turn : TimerFires(t)
  <2>1. PICK t \in Turn : Fail(t)
    BY <1>1, <1>5 DEF Stop, TimerFires, Abort, TypeOK
  <2> QED
    BY <1>2, <2>1 DEF Fail
<1>6. CASE NewChat
  BY <1>1, <1>6, FramedStays DEF NewChat, rvars, closures
<1>7. CASE Reload
  <2>1. stage'[u] = "none"
    BY <1>7 DEF Reload, ForAll
  <2> QED
    BY <1>1, <2>1, FramedIdle
<1>8. ASSUME NEW t \in Turn, Wait(t) PROVE Framed(u)'
  <2>1. CASE Respond(t)
    <3>1. stage'[u] # "none" => stage[u] # "none"
      BY <1>1, <2>1 DEF Respond, TypeOK
    <3> QED
      BY <1>1, <2>1, <3>1, FramedStays DEF Respond, rvars
  <2>2. CASE Fail(t)
    BY <1>2, <2>2 DEF Fail
  <2>3. CASE Read(t)
    <3>1. CASE u = t
      BY <1>1, <2>3, <3>1, ReadFramed
    <3>2. CASE u # t
      <4>1. /\ relay'[u] = relay[u] /\ wire'[u] = wire[u] /\ stage' = stage
            /\ buffered'[u] = buffered[u] /\ sawError'[u] = sawError[u]
        BY <1>1, <2>3, <3>2 DEF Read, TypeOK, RTypeOK
      <4> QED
        BY <1>1, <4>1, FramedStays
    <3> QED
      BY <3>1, <3>2
  <2>4. CASE EndInError(t)
    BY <1>2, <2>4 DEF EndInError
  <2>5. CASE EndInReply(t)
    <3>1. stage[t] # "none" /\ Finally(t) /\ UNCHANGED rvars
      BY <2>5 DEF EndInReply
    <3>2. stage'[t] = "none"
      BY <3>1, EndedTurn
    <3>3. CASE u = t
      BY <1>1, <3>2, <3>3, FramedIdle
    <3>4. CASE u # t
      <4>1. /\ stage'[u] = stage[u] /\ buffered'[u] = buffered[u]
            /\ sawError'[u] = sawError[u]
        BY <3>1, <3>4, EndedTurn
      <4> QED
        BY <1>1, <3>1, <4>1, FramedStays DEF rvars
    <3> QED
      BY <3>3, <3>4
  <2> QED
    BY <1>8, <2>1, <2>2, <2>3, <2>4, <2>5 DEF Wait
<1>9. ASSUME NEW t \in Turn, Relay(t), PageRests PROVE Framed(u)'
  <2>1. CASE u = t
    BY <1>1, <1>9, <2>1, RelayFramed
  <2>2. CASE u # t
    <3>1. /\ \E to : relay' = [relay EXCEPT ![t] = to]
          /\ wire' = wire \/ \E p : wire' = [wire EXCEPT ![t] = Append(@, p)]
      BY <1>9 DEF Relay, Refuse, Accept, PassLine, PassHead, PassRest, PassError,
                  Finish, Break, Move, Say, SayError
    <3>2. relay'[u] = relay[u] /\ wire'[u] = wire[u]
      BY <1>1, <2>2, <3>1 DEF RTypeOK
    <3> QED
      BY <1>1, <1>9, <3>2, FramedStays DEF PageRests, closures
  <2> QED
    BY <2>1, <2>2
<1>10. CASE UNCHANGED vars
  BY <1>1, <1>10, FramedStays DEF vars, rvars, closures
<1> QED
  BY <1>3, <1>4, <1>5, <1>6, <1>7, <1>8, <1>9, <1>10 DEF Next, PageRests

\* What is recorded is whole, and stays as it is.
LEMMA RepliesWhole ==
  ASSUME IInv, AllFramed, Settled, ReplyIsWhole, [Next]_vars
  PROVE  Settled' /\ ReplyIsWhole'
<1>1. /\ history \in Seq(Message) /\ turns \in Nat /\ TypeOK /\ RTypeOK
  BY HistoryType DEF IInv, TypeOK
<1>2. ASSUME NEW i \in 1..Len(history)
      PROVE  /\ history[i].turn \in Turn /\ history[i].turn <= turns'
             /\ history[i].role = "assistant" =>
                  /\ stage'[history[i].turn] = "none"
                  /\ relay'[history[i].turn] = "whole"
                  /\ history[i].tokens = sent'[history[i].turn]
  <2>1. history[i] \in Message
    BY <1>1
  <2>2. history[i].turn \in Turn /\ history[i].turn <= turns
    BY <2>1 DEF Message, Settled
  <2>3. turns <= turns' /\ turns' \in Nat
    <3>1. turns' = turns \/ turns' = turns + 1
      BY DEF Next, LoadModels, ModelsListed, NoModels, Send, Stop, NewChat, Reload,
             Wait, Respond, Fail, Read, EndInError, EndInReply, TimerFires, Abort,
             Finally, counts, vars
    <3> QED
      BY <1>1, <3>1
  <2>4. CASE history[i].role = "assistant"
    BY <2>2, <2>3, <2>4, DoneStays, <1>1 DEF Settled, ReplyIsWhole, Turn
  <2>5. CASE history[i].role # "assistant"
    BY <1>1, <2>2, <2>3, <2>5 DEF Turn
  <2> QED
    BY <2>4, <2>5, <2>2
<1>3. CASE history' = history
  BY <1>2, <1>3 DEF Settled, ReplyIsWhole
<1>4. CASE history' = <<>>
  BY <1>4 DEF Settled, ReplyIsWhole
<1>5. ASSUME NEW m \in Message, history' = Append(history, m), m.turn <= turns',
             m.role = "assistant" =>
               /\ stage'[m.turn] = "none" /\ relay'[m.turn] = "whole"
               /\ m.tokens = sent'[m.turn]
      PROVE  Settled' /\ ReplyIsWhole'
  <2>1. /\ Len(history) \in Nat /\ Len(history') = Len(history) + 1
        /\ history'[Len(history) + 1] = m
        /\ \A i \in 1..Len(history) : history'[i] = history[i]
    BY <1>1, <1>5, AppendedMessage
  <2>2. \A i \in 1..Len(history') : i \in 1..Len(history) \/ i = Len(history) + 1
    BY <2>1
  <2> QED
    BY <1>2, <1>5, <2>1, <2>2 DEF Settled, ReplyIsWhole
<1>6. CASE /\ turns + 1 \in Turn /\ turns' = turns + 1
           /\ history' = Append(history, Question(turns + 1))
  <2>1. Question(turns + 1) \in Message
    BY <1>6, RelayAssumption DEF Question, Message, RelayAssumption
  <2> QED
    BY <1>1, <1>5, <1>6, <2>1 DEF Question
<1>7. ASSUME NEW t \in Turn, EndInReply(t),
             history' = Append(history, Reply(t, content[t]))
      PROVE  Settled' /\ ReplyIsWhole'
  <2>1. /\ stage[t] = "read" /\ wire[t] = <<>> /\ Ended(t) /\ ~sawError[t]
        /\ Finally(t) /\ relay' = relay /\ sent' = sent /\ turns' = turns
    BY <1>7 DEF EndInReply, rvars, Finally, counts
  <2>2. relay[t] = "whole"
    BY <2>1 DEF AllFramed, Framed, Ended
  <2>3. content[t] = sent[t] /\ content[t] \in 0..MaxTokens
    <3>1. /\ content[t] \in Nat /\ sent[t] \in Nat /\ sent[t] <= MaxTokens
          /\ content[t] + Tokens(wire[t]) = sent[t]
      BY <2>1 DEF IInv, TypeOK, RTypeOK, TurnInv, Counted
    <3> QED
      BY <2>1, <3>1, TokensOfNone, RelayAssumption DEF RelayAssumption
  <2>4. stage'[t] = "none"
    BY <2>1, EndedTurn
  <2>5. t <= turns
    BY <1>1, <2>1 DEF IInv, TurnInv, Unasked, Turn
  <2>6. Reply(t, content[t]) \in Message
    BY <2>3 DEF Reply, Message
  <2> QED
    BY <1>5, <1>7, <2>1, <2>2, <2>3, <2>4, <2>5, <2>6 DEF Reply
<1> QED
  BY <1>3, <1>4, <1>6, <1>7, HistorySteps

\* Where Ollama's stream does not break within a line, every reply in the
\* conversation is all of what Ollama sent (web/README.md:43).
THEOREM RepliesAreWhole ==
  ASSUME "within" \notin Breaks
  PROVE  Spec => []ReplyIsWhole
<1>1. Init => AllFramed /\ Settled /\ ReplyIsWhole
  BY DEF Init, RInit, ForAll, AllFramed, Framed, Open, Settled, ReplyIsWhole
<1>2. IInv /\ AllFramed /\ [Next]_vars => AllFramed'
  BY NextFramed
<1>3. IInv /\ AllFramed /\ Settled /\ ReplyIsWhole /\ [Next]_vars
        => Settled' /\ ReplyIsWhole'
  BY RepliesWhole
<1> QED
  BY <1>1, <1>2, <1>3, InitIInv, NextIInv, PTL DEF Spec
-----------------------------------------------------------------------------
\* The mapping to Conversation, by its names there.
OpenQuestion == IF sending THEN abortable ELSE 0

SaidToIt == IF sending THEN sent[abortable] ELSE 0

\* The question under way is one of a send(), and the only one.
LEMMA UnderWayIsOpen ==
  ASSUME IInv
  PROVE  /\ sending => abortable \in Turn /\ abortable # 0 /\ OpenQuestion = abortable
                         /\ stage[abortable] # "none"
         /\ \A t \in Turn : stage[t] # "none" => sending /\ abortable = t
<1>1. UnderWay = IF sending THEN {abortable} ELSE {}
  BY DEF IInv, OneAtATime
<1>2. ASSUME sending PROVE abortable \in Turn /\ stage[abortable] # "none"
  BY <1>1, <1>2 DEF UnderWay
<1>3. ASSUME NEW t \in Turn, stage[t] # "none" PROVE sending /\ abortable = t
  BY <1>1, <1>3 DEF UnderWay
<1>4. \A t \in Turn : t # 0
  BY DEF Turn
<1> QED
  BY <1>2, <1>3, <1>4 DEF OpenQuestion

\* What leaves the page's control and the relay's books alone.
LEMMA TalkRests ==
  ASSUME UNCHANGED <<history, sending, abortable, turns, relay, sent>>
  PROVE  UNCHANGED Talk!cvars
BY DEF Talk!cvars, Ending

\* send() asks.
LEMMA SendAsks ==
  ASSUME IInv, Send
  PROVE  Talk!Ask
<1> DEFINE t == turns + 1
<1>1. /\ t \in Turn /\ t # 0 /\ ~sending /\ sending' = TRUE /\ abortable' = t
      /\ turns' = t /\ history' = Append(history, Question(t))
      /\ relay' = [relay EXCEPT ![t] = "asking"] /\ sent' = sent
  BY DEF Send, MaySend, Request, Turn
<1>2. TypeOK /\ RTypeOK /\ Unasked(t) /\ turns \in Nat
  BY <1>1 DEF IInv, TypeOK, TurnInv
<1>3. sent[t] = 0 /\ relay'[t] = "asking"
  BY <1>1, <1>2 DEF Unasked, RTypeOK
<1>4. Ending = "open" /\ Ending' = "open"
  BY <1>1, <1>3 DEF Ending
<1>5. Question(t) = Talk!Message("user", t, 0)
  BY DEF Question, Talk!Message
<1> QED
  BY <1>1, <1>3, <1>4, <1>5 DEF Talk!Ask

\* A send() that ends closes its question.
LEMMA EndCloses ==
  ASSUME IInv, NEW t \in Turn, stage[t] # "none", Finally(t)
  PROVE  Talk!CloseQuestion
<1>1. sending /\ abortable # 0 /\ sending' = FALSE /\ turns' = turns
  BY UnderWayIsOpen DEF Finally, counts
<1>2. Ending' = "open"
  BY <1>1 DEF Ending
<1> QED
  BY <1>1, <1>2 DEF Talk!CloseQuestion

\* A send() that ends in its catch block, or in an error, gives up.
LEMMA FailGivesUp ==
  ASSUME IInv, NEW t \in Turn, stage[t] # "none", Finally(t), history' = history
  PROVE  Talk!GiveUp
BY EndCloses DEF Talk!GiveUp

\* A send() that ends in a reply answers with all that was said.
LEMMA ReplyAnswers ==
  ASSUME IInv, "within" \notin Breaks => AllFramed, NEW t \in Turn, EndInReply(t)
  PROVE  Talk!Answer
<1>1. /\ stage[t] = "read" /\ wire[t] = <<>> /\ Ended(t) /\ ~sawError[t]
      /\ content[t] > 0 /\ Finally(t)
      /\ history' = Append(history, Reply(t, content[t]))
  BY DEF EndInReply
<1>2. sending /\ abortable = t
  BY <1>1, UnderWayIsOpen
<1>3. relay[t] = "whole" \/ (relay[t] = "failed" /\ "within" \in Breaks)
  BY <1>1 DEF AllFramed, Framed, Ended
<1>4. Ending # "open"
  BY <1>2, <1>3 DEF Ending
<1>5. content[t] = sent[t]
  <2>1. /\ content[t] \in Nat /\ sent[t] \in Nat
        /\ content[t] + Tokens(wire[t]) = sent[t]
    BY <1>1 DEF IInv, TypeOK, RTypeOK, TurnInv, Counted
  <2> QED
    BY <1>1, <2>1, TokensOfNone
<1>6. Reply(t, content[t]) = Talk!Message("assistant", t, sent[t])
  BY <1>5 DEF Reply, Talk!Message
<1>7. Talk!CloseQuestion
  BY <1>1, EndCloses
<1> QED
  BY <1>1, <1>2, <1>4, <1>5, <1>6, <1>7 DEF Talk!Answer

\* What the relay passes on is said, and ends.
LEMMA RelaySays ==
  ASSUME IInv, NEW t \in Turn, Relay(t), PageRests
  PROVE  Talk!Say \/ Talk!EndSaying \/ UNCHANGED Talk!cvars
<1>1. /\ RTypeOK /\ Idle(t)
      /\ history' = history /\ sending' = sending /\ abortable' = abortable
      /\ turns' = turns
  BY DEF PageRests, counts, IInv, TypeOK, TurnInv
<1>2. relay[t] \in {"asking", "between", "within"}
  BY DEF Relay, Refuse, Accept, PassLine, PassHead, PassRest, PassError,
         Finish, Break, Move
<1>3. sending /\ abortable = t /\ t # 0
  BY <1>1, <1>2, UnderWayIsOpen DEF Idle
<1>4. Ending = "open"
  BY <1>2, <1>3 DEF Ending
<1>5. ASSUME relay'[t] = "failed", sent' = sent
      PROVE  Talk!EndSaying \/ UNCHANGED Talk!cvars
  <2>1. CASE "within" \in Breaks
    <3>1. Ending' = "torn"
      BY <1>1, <1>3, <1>5, <2>1 DEF Ending
    <3> QED
      BY <1>1, <1>3, <1>4, <1>5, <2>1, <3>1 DEF Talk!EndSaying
  <2>2. CASE "within" \notin Breaks
    <3>1. Ending' = "open"
      BY <1>1, <1>3, <1>5, <2>2 DEF Ending
    <3> QED
      BY <1>1, <1>4, <1>5, <3>1 DEF Talk!cvars
  <2> QED
    BY <2>1, <2>2
<1>6. ASSUME relay'[t] \in {"between", "within"}, sent' = sent
      PROVE  UNCHANGED Talk!cvars
  <2>1. Ending' = "open"
    BY <1>1, <1>3, <1>6 DEF Ending
  <2> QED
    BY <1>1, <1>4, <1>6, <2>1 DEF Talk!cvars
<1>7. ASSUME relay'[t] = "between", sent' = [sent EXCEPT ![t] = @ + 1]
      PROVE  Talk!Say
  <2>1. Ending' = "open" /\ sent'[t] = sent[t] + 1
    BY <1>1, <1>3, <1>7 DEF Ending, RTypeOK
  <2> QED
    BY <1>1, <1>3, <1>4, <2>1 DEF Talk!Say
<1>8. CASE Refuse(t) \/ PassError(t) \/ Break(t)
  BY <1>1, <1>5, <1>8 DEF Refuse, PassError, Break, Move, RTypeOK
<1>9. CASE Accept(t) \/ PassHead(t)
  BY <1>1, <1>6, <1>9 DEF Accept, PassHead, Move, RTypeOK
<1>10. CASE PassLine(t) \/ PassRest(t)
  BY <1>1, <1>7, <1>10 DEF PassLine, PassRest, Move, RTypeOK
<1>11. CASE Finish(t)
  <2>1. relay'[t] = "whole" /\ sent' = sent
    BY <1>1, <1>11 DEF Finish, Move, RTypeOK
  <2>2. Ending' = "whole"
    BY <1>1, <1>3, <2>1 DEF Ending
  <2> QED
    BY <1>1, <1>3, <1>4, <2>1, <2>2 DEF Talk!EndSaying
<1> QED
  BY <1>8, <1>9, <1>10, <1>11 DEF Relay

\* Each step of the page and the relay is one of the conversation, or none.
LEMMA TalkStep ==
  ASSUME IInv, "within" \notin Breaks => AllFramed, [Next]_vars
  PROVE  [Talk!Next]_(Talk!cvars)
<1>1. CASE LoadModels \/ ModelsListed \/ NoModels
  BY <1>1, TalkRests DEF LoadModels, ModelsListed, NoModels, rvars, counts
<1>2. CASE Send
  BY <1>2, SendAsks DEF Talk!Next
<1>3. CASE Stop \/ \E t \in Turn : TimerFires(t)
  <2>1. PICK t \in Turn : Fail(t)
    BY <1>3 DEF Stop, TimerFires, Abort, IInv, TypeOK
  <2> QED
    BY <2>1, FailGivesUp DEF Fail, Talk!Next
<1>4. CASE NewChat
  <2>1. /\ history' = <<>> /\ sending' = sending /\ abortable' = abortable
        /\ turns' = turns /\ relay' = relay /\ sent' = sent
    BY <1>4 DEF NewChat, StaysSending, rvars
  <2>2. Ending' = Ending
    BY <2>1 DEF Ending
  <2> QED
    BY <2>1, <2>2 DEF Talk!Clear, Talk!Next
<1>5. CASE Reload
  <2>1. sending' = FALSE /\ history' = history /\ turns' = turns
    BY <1>5 DEF Reload
  <2>2. Ending' = "open"
    BY <2>1 DEF Ending
  <2>3. CASE sending
    BY <2>1, <2>2, <2>3, UnderWayIsOpen
       DEF Talk!CloseQuestion, Talk!GiveUp, Talk!Next
  <2>4. CASE ~sending
    <3>1. Ending = "open" /\ ~sending'
      BY <2>1, <2>4 DEF Ending
    <3> QED
      BY <2>1, <2>2, <2>4, <3>1 DEF Talk!cvars
  <2> QED
    BY <2>3, <2>4
<1>6. ASSUME NEW t \in Turn, Wait(t) PROVE [Talk!Next]_(Talk!cvars)
  <2>1. CASE Respond(t) \/ Read(t)
    BY <2>1, TalkRests DEF Respond, Read, rvars, counts
  <2>2. CASE Fail(t) \/ EndInError(t)
    BY <2>2, FailGivesUp DEF Fail, EndInError, Talk!Next
  <2>3. CASE EndInReply(t)
    BY <2>3, ReplyAnswers DEF Talk!Next
  <2> QED
    BY <1>6, <2>1, <2>2, <2>3 DEF Wait
<1>7. ASSUME NEW t \in Turn, Relay(t), PageRests PROVE [Talk!Next]_(Talk!cvars)
  BY <1>7, RelaySays DEF Talk!Next
<1>8. CASE UNCHANGED vars
  BY <1>8, TalkRests DEF vars, rvars, counts
<1> QED
  BY <1>1, <1>2, <1>3, <1>4, <1>5, <1>6, <1>7, <1>8 DEF Next, PageRests

\* The page implements the conversation: whatever comes in pieces, is
\* stopped, timed out, cleared or reloaded, a question ends in one reply with
\* all that was said to it, or in none (chat.html:643-764).
THEOREM PageImplementsConversation == Spec => ImplementsConversation
<1> DEFINE Framing == "within" \notin Breaks => AllFramed
<1>1. Init => Talk!Init
  BY DEF Init, Talk!Init, Ending
<1>2. Init => Framing
  BY DEF Init, RInit, ForAll, AllFramed, Framed, Open
<1>3. IInv /\ Framing /\ [Next]_vars => Framing'
  BY NextFramed
<1>4. IInv /\ Framing /\ [Next]_vars => [Talk!Next]_(Talk!cvars)
  BY TalkStep
<1> HIDE DEF Framing
<1> QED
  BY <1>1, <1>2, <1>3, <1>4, InitIInv, NextIInv, PTL
  DEF Spec, ImplementsConversation, Talk!Spec

-----------------------------------------------------------------------------
TalkMessage == [role : {"user", "assistant"}, turn : Nat, tokens : Nat]

\* What a conversation keeps: no message is of a question still to come, and
\* the open question is the latest and has no answer yet.
TalkInv ==
  /\ history \in Seq(TalkMessage)
  /\ turns \in Nat
  /\ OpenQuestion \in {0, turns}
  /\ SaidToIt \in Nat
  /\ \A i \in 1..Len(history) :
       /\ history[i].turn <= turns
       /\ OpenQuestion # 0 /\ history[i].role = "assistant" =>
            history[i].turn < turns
  /\ Talk!InOrder

LEMMA LastComesLast ==
  ASSUME NEW S, NEW log \in Seq(S), NEW m \in S,
         \A i, j \in 1..Len(log) : i < j => Talk!Earlier(log[i], log[j]),
         \A i \in 1..Len(log) : Talk!Earlier(log[i], m)
  PROVE  \A i, j \in 1..Len(Append(log, m)) :
           i < j => Talk!Earlier(Append(log, m)[i], Append(log, m)[j])
<1> SUFFICES ASSUME NEW i \in 1..Len(Append(log, m)),
                    NEW j \in 1..Len(Append(log, m)), i < j
             PROVE  Talk!Earlier(Append(log, m)[i], Append(log, m)[j])
  OBVIOUS
<1>1. i \in 1..Len(log) /\ Append(log, m)[i] = log[i]
  OBVIOUS
<1>2. CASE j \in 1..Len(log)
  <2>1. Append(log, m)[j] = log[j]
    BY <1>2
  <2> QED
    BY <1>1, <1>2, <2>1
<1>3. CASE j = Len(log) + 1
  <2>1. Append(log, m)[j] = m
    BY <1>3
  <2> QED
    BY <1>1, <2>1
<1> QED
  BY <1>2, <1>3

\* A question that is asked is the latest.
LEMMA AskInOrder ==
  ASSUME TalkInv, Talk!Ask
  PROVE  TalkInv'
<1> DEFINE q == [role |-> "user", turn |-> turns + 1, tokens |-> 0]
<1>1. /\ turns \in Nat /\ turns' = turns + 1 /\ OpenQuestion' = turns'
      /\ SaidToIt' = SaidToIt /\ SaidToIt \in Nat
      /\ history \in Seq(TalkMessage) /\ history' = Append(history, q)
  BY DEF TalkInv, Talk!Ask, Talk!Message, OpenQuestion, SaidToIt
<1>2. q \in TalkMessage
  BY <1>1 DEF TalkMessage
<1>3. \A i \in 1..Len(history) :
        /\ history[i].turn \in Nat /\ history[i].turn <= turns
        /\ Talk!Earlier(history[i], q)
  <2> SUFFICES ASSUME NEW i \in 1..Len(history)
               PROVE  /\ history[i].turn \in Nat /\ history[i].turn <= turns
                      /\ Talk!Earlier(history[i], q)
    OBVIOUS
  <2>1. history[i] \in TalkMessage
    BY <1>1
  <2>2. history[i].turn \in Nat
    BY <2>1 DEF TalkMessage
  <2>3. history[i].turn <= turns
    BY DEF TalkInv
  <2> QED
    BY <1>1, <2>2, <2>3 DEF Talk!Earlier
<1>4. Talk!InOrder'
  BY <1>1, <1>2, <1>3, LastComesLast DEF TalkInv, Talk!InOrder
<1>5. history' \in Seq(TalkMessage)
  BY <1>1, <1>2
<1>6. ASSUME NEW i \in 1..Len(history')
      PROVE  /\ history'[i].turn <= turns'
             /\ history'[i].role = "assistant" => history'[i].turn < turns'
  <2>1. CASE i \in 1..Len(history)
    <3>1. history'[i] = history[i]
      BY <1>1, <2>1
    <3> QED
      BY <1>1, <1>3, <2>1, <3>1
  <2>2. CASE i = Len(history) + 1
    <3>1. history'[i] = q
      BY <1>1, <2>2
    <3> QED
      BY <1>1, <3>1
  <2> QED
    BY <1>1, <2>1, <2>2
<1> QED
  BY <1>1, <1>4, <1>5, <1>6 DEF TalkInv

\* The answer to the open question is the first to it, and comes last.
LEMMA AnswerInOrder ==
  ASSUME TalkInv, Talk!Answer
  PROVE  TalkInv'
<1> DEFINE a == [role |-> "assistant", turn |-> turns, tokens |-> SaidToIt]
<1>1. /\ turns \in Nat /\ turns' = turns /\ OpenQuestion = turns /\ OpenQuestion # 0
      /\ OpenQuestion' = 0 /\ SaidToIt' = 0 /\ SaidToIt \in Nat
      /\ history \in Seq(TalkMessage) /\ history' = Append(history, a)
  BY DEF TalkInv, Talk!Answer, Talk!CloseQuestion, Talk!Message, OpenQuestion, SaidToIt
<1>2. a \in TalkMessage
  BY <1>1 DEF TalkMessage
<1>3. \A i \in 1..Len(history) :
        history[i].turn <= turns /\ Talk!Earlier(history[i], a)
  <2> SUFFICES ASSUME NEW i \in 1..Len(history)
               PROVE  history[i].turn <= turns /\ Talk!Earlier(history[i], a)
    OBVIOUS
  <2>1. /\ history[i].role \in {"user", "assistant"} /\ history[i].turn \in Nat
        /\ history[i].turn <= turns
        /\ history[i].role = "assistant" => history[i].turn < turns
    <3>1. history[i] \in TalkMessage
      BY <1>1
    <3>2. history[i].role \in {"user", "assistant"} /\ history[i].turn \in Nat
      BY <3>1 DEF TalkMessage
    <3> QED
      BY <1>1, <3>2 DEF TalkInv
  <2> QED
    BY <1>1, <2>1 DEF Talk!Earlier
<1>4. Talk!InOrder'
  BY <1>1, <1>2, <1>3, LastComesLast DEF TalkInv, Talk!InOrder
<1>5. history' \in Seq(TalkMessage)
  BY <1>1, <1>2
<1>6. ASSUME NEW i \in 1..Len(history')
      PROVE  history'[i].turn <= turns'
  <2>1. CASE i \in 1..Len(history)
    <3>1. history'[i] = history[i]
      BY <1>1, <2>1
    <3> QED
      BY <1>1, <1>3, <2>1, <3>1
  <2>2. CASE i = Len(history) + 1
    <3>1. history'[i] = a
      BY <1>1, <2>2
    <3> QED
      BY <1>1, <3>1
  <2> QED
    BY <1>1, <2>1, <2>2
<1> QED
  BY <1>1, <1>4, <1>5, <1>6 DEF TalkInv

LEMMA TalkStaysInOrder ==
  ASSUME TalkInv, [Talk!Next]_(Talk!cvars)
  PROVE  TalkInv'
<1>1. CASE Talk!Say \/ Talk!EndSaying \/ UNCHANGED Talk!cvars
  <2>1. /\ history' = history /\ turns' = turns /\ OpenQuestion' = OpenQuestion
        /\ SaidToIt' \in {SaidToIt, SaidToIt + 1}
    BY <1>1 DEF Talk!Say, Talk!EndSaying, Talk!cvars, OpenQuestion, SaidToIt
  <2> QED
    BY <2>1 DEF TalkInv, Talk!InOrder
<1>2. CASE Talk!GiveUp
  <2>1. /\ history' = history /\ turns' = turns /\ OpenQuestion' = 0 /\ SaidToIt' = 0
    BY <1>2 DEF Talk!GiveUp, Talk!CloseQuestion, OpenQuestion, SaidToIt
  <2> QED
    BY <2>1 DEF TalkInv, Talk!InOrder
<1>3. CASE Talk!Clear
  <2>1. /\ history' = <<>> /\ turns' = turns /\ OpenQuestion' = OpenQuestion
        /\ SaidToIt' = SaidToIt
    BY <1>3 DEF Talk!Clear, OpenQuestion, SaidToIt
  <2> QED
    BY <2>1 DEF TalkInv, Talk!InOrder
<1> QED
  BY <1>1, <1>2, <1>3, AskInOrder, AnswerInOrder DEF Talk!Next

\* Whatever implements a conversation, here the page by way of the theorem
\* above, has its questions and answers in the order they were asked in and
\* each at most once (chat.html:663, 743).
THEOREM AnswersComeInOrder ==
  /\ Talk!Spec => []Talk!InOrder
  /\ Spec => []Talk!InOrder
<1>1. Talk!Init => TalkInv
  <2> SUFFICES ASSUME Talk!Init
               PROVE  TalkInv
    OBVIOUS
  <2>1. history = <<>> /\ turns = 0 /\ OpenQuestion = 0 /\ SaidToIt = 0
    BY DEF Talk!Init, OpenQuestion, SaidToIt
  <2> QED
    BY <2>1 DEF TalkInv, Talk!InOrder
<1>2. TalkInv => Talk!InOrder
  BY DEF TalkInv
<1>3. Talk!Spec => []Talk!InOrder
  BY <1>1, <1>2, TalkStaysInOrder, PTL DEF Talk!Spec
<1> QED
  BY <1>3, PageImplementsConversation DEF ImplementsConversation

\* A question under way always has its timer set, which the fairness of Spec
\* is about: with it, no question hangs for good (chat.html:677-680).
THEOREM QuestionsAreTimed == Spec => [](sending => abortable \in timers)
<1>1. IInv => (sending => abortable \in timers)
  BY UnderWayIsOpen DEF IInv, TimersAreCurrent, OneAtATime
<1> QED
  BY <1>1, PageInvariant, PTL

-----------------------------------------------------------------------------
\* A request for the models disables their list, and while there is one at a
\* time only its own end enables it again.
Loading ==
  /\ loads \in {0, 1}
  /\ loads = 1 => ~enabled
  /\ enabled => listed
  /\ AsksAModel

LEMMA LoadingStep ==
  ASSUME MaxLoads <= 1, IInv, Loading, [Next]_vars
  PROVE  Loading'
<1>1. ASSUME UNCHANGED <<models, asked>>
      PROVE  Loading'
  BY <1>1 DEF models, Loading, AsksAModel
<1>2. CASE LoadModels
  <2>1. loads < MaxLoads /\ loads' = loads + 1 /\ ~enabled' /\ asked' = asked
    BY <1>2 DEF LoadModels
  <2>2. loads' \in {0, 1}
    BY <2>1, PageAssumption DEF Loading
  <2> QED
    BY <2>1, <2>2 DEF Loading, AsksAModel
<1>3. CASE ModelsListed
  <2>1. loads > 0 /\ loads' = loads - 1 /\ listed' /\ asked' = asked
    BY <1>3 DEF ModelsListed
  <2>2. loads' = 0
    BY <2>1 DEF Loading
  <2>3. loads' \in {0, 1} /\ loads' # 1
    BY <2>2
  <2> QED
    BY <2>1, <2>3, Zenon DEF Loading, AsksAModel
<1>4. CASE NoModels
  <2>1. loads > 0 /\ loads' = loads - 1 /\ asked' = asked
    BY <1>4 DEF NoModels
  <2>2. loads = 1 /\ loads' = 0
    BY <2>1 DEF Loading
  <2>3. ~enabled'
    BY <1>4, <2>2 DEF NoModels, Loading
  <2> QED
    BY <2>1, <2>2, <2>3 DEF Loading, AsksAModel
<1>5. CASE Send
  <2>1. enabled /\ models' = models /\ asked' = asked \cup {listed}
    BY <1>5 DEF Send
  <2>2. listed = TRUE
    BY <2>1 DEF Loading, IInv, TypeOK
  <2> QED
    BY <2>1, <2>2 DEF models, Loading, AsksAModel
<1>6. CASE Reload
  <2>1. loads' = 1 /\ ~enabled' /\ asked' = asked
    BY <1>6 DEF Reload
  <2> QED
    BY <2>1 DEF Loading, AsksAModel
<1>7. CASE NewChat \/ Stop \/ \E t \in Turn : TimerFires(t)
  BY <1>1, <1>7 DEF NewChat, Stop, TimerFires, Abort, Fail, Finally
<1>8. ASSUME NEW t \in Turn, Wait(t) \/ (Relay(t) /\ PageRests)
      PROVE  Loading'
  BY <1>1, <1>8 DEF Wait, Respond, Fail, Read, EndInError, EndInReply,
     Finally, PageRests
<1>9. CASE UNCHANGED vars
  BY <1>1, <1>9 DEF vars
<1> QED
  BY <1>2, <1>3, <1>4, <1>5, <1>6, <1>7, <1>8, <1>9 DEF Next, PageRests

\* With one request for the models at a time no question is sent to a
\* placeholder: it takes two (chat.html:499-534, 651-652).
THEOREM OneLoadAsksAModel ==
  ASSUME MaxLoads <= 1
  PROVE  Spec => []AsksAModel
<1>1. Init => Loading
  <2> SUFFICES ASSUME Init
               PROVE  Loading
    OBVIOUS
  <2>1. loads = 1 /\ ~enabled /\ asked = {}
    BY DEF Init
  <2> QED
    BY <2>1 DEF Loading, AsksAModel
<1>2. IInv /\ Loading /\ [Next]_vars => Loading'
  BY LoadingStep
<1>3. Loading => AsksAModel
  BY DEF Loading
<1> QED
  BY <1>1, <1>2, <1>3, PageInvariant, PTL DEF Spec

-----------------------------------------------------------------------------
\* While a reply is under way its question is there.
Kept == (sending => history # <<>>) /\ StaysCleared

LEMMA KeptStep ==
  ASSUME IInv, Kept, [Next]_vars, clears' # clears => ~sending
  PROVE  Kept'
<1>1. CASE NewChat
  <2>1. clears' # clears /\ sending' = sending /\ history' = <<>>
    BY <1>1 DEF NewChat, StaysSending, IInv, TypeOK
  <2> QED
    BY <2>1 DEF Kept, StaysCleared
<1>2. ASSUME history' = history, sending' => sending
      PROVE  Kept'
  BY <1>2 DEF Kept, StaysCleared
<1>3. ASSUME NEW m \in Message, history' = Append(history, m),
             m.role = "assistant" => history # <<>>
      PROVE  Kept'
  <2>1. /\ Len(history) \in Nat /\ Len(history') = Len(history) + 1
        /\ history'[Len(history) + 1] = m
        /\ \A i \in 1..Len(history) : history'[i] = history[i]
        /\ (history = <<>>) <=> Len(history) = 0
    BY <1>3, HistoryType, AppendedMessage
  <2>2. history' # <<>>
    BY <2>1
  <2>3. ASSUME NEW i \in 1..Len(history'), history'[i].role = "assistant"
        PROVE  i > 1
    <3>1. CASE i \in 1..Len(history)
      BY <2>1, <2>3, <3>1 DEF Kept, StaysCleared
    <3>2. CASE i = Len(history) + 1
      BY <1>3, <2>1, <2>3, <3>2
    <3> QED
      BY <2>1, <3>1, <3>2
  <2> QED
    BY <2>2, <2>3 DEF Kept, StaysCleared
<1>4. CASE \E t \in Turn : EndInReply(t)
  <2>1. PICK t \in Turn : EndInReply(t)
    BY <1>4
  <2>2. /\ sending /\ history' = Append(history, Reply(t, content[t]))
    <3>1. stage[t] # "none"
      BY <2>1 DEF EndInReply
    <3> QED
      BY <2>1, <3>1, UnderWayIsOpen DEF EndInReply
  <2>3. Reply(t, content[t]) \in Message
    <3>1. /\ content[t] \in Nat /\ sent[t] \in Nat /\ sent[t] <= MaxTokens
          /\ content[t] + Tokens(wire[t]) = sent[t] /\ wire[t] = <<>>
      BY <2>1 DEF IInv, TypeOK, RTypeOK, TurnInv, Counted, EndInReply
    <3>2. content[t] \in 0..MaxTokens
      BY <3>1, TokensOfNone, RelayAssumption DEF RelayAssumption
    <3> QED
      BY <3>2 DEF Reply, Message
  <2> QED
    BY <1>3, <2>2, <2>3 DEF Kept
<1>5. CASE Send
  <2>1. turns + 1 \in Turn /\ history' = Append(history, Question(turns + 1))
    BY <1>5 DEF Send
  <2>2. Question(turns + 1) \in Message /\ Question(turns + 1).role = "user"
    BY <2>1, RelayAssumption DEF Question, Message, RelayAssumption
  <2> QED
    BY <1>3, <2>1, <2>2
<1>6. CASE LoadModels \/ ModelsListed \/ NoModels \/ Reload
  BY <1>2, <1>6 DEF LoadModels, ModelsListed, NoModels, Reload
<1>7. CASE Stop \/ \E t \in Turn : TimerFires(t)
  BY <1>2, <1>7 DEF Stop, TimerFires, Abort, Fail, Finally
<1>8. ASSUME NEW t \in Turn,
             \/ Respond(t) \/ Fail(t) \/ Read(t) \/ EndInError(t)
             \/ Relay(t) /\ PageRests
      PROVE  Kept'
  BY <1>2, <1>8 DEF Respond, Fail, Read, EndInError, Finally, PageRests
<1>9. CASE UNCHANGED vars
  BY <1>2, <1>9 DEF vars
<1> QED
  BY <1>1, <1>4, <1>5, <1>6, <1>7, <1>8, <1>9 DEF Next, Wait, PageRests

\* Where no conversation is cleared under a reply, nothing of one turns up in
\* the next: it takes a clear in the middle of a reply (chat.html:624-633,
\* 743).
THEOREM PatientClearsStay ==
  Spec /\ [][clears' # clears => ~sending]_vars => []StaysCleared
<1>1. Init => Kept
  <2> SUFFICES ASSUME Init
               PROVE  Kept
    OBVIOUS
  <2>1. ~sending /\ history = <<>>
    BY DEF Init
  <2> QED
    BY <2>1 DEF Kept, StaysCleared
<1>2. IInv /\ Kept /\ [Next]_vars /\ [clears' # clears => ~sending]_vars => Kept'
  <2>1. ASSUME UNCHANGED vars
        PROVE  clears' = clears
    BY <2>1 DEF vars, counts
  <2> QED
    BY <2>1, KeptStep
<1>3. Kept => StaysCleared
  BY DEF Kept
<1> QED
  BY <1>1, <1>2, <1>3, PageInvariant, PTL DEF Spec
==============================================================================
