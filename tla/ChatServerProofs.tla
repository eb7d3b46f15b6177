--------------------------- MODULE ChatServerProofs ---------------------------
(***************************************************************************)
(* Of the memory server, for any threads, texts, faults and crashes: the   *)
(* list stays free of doubles, the file is in step whenever no save is     *)
(* under way, every handler's list shows its own change, and the whole     *)
(* keeps the promise of FactMemory.                                        *)
(***************************************************************************)
EXTENDS ChatServer, SequenceTheorems, TLAPS

LEMMA TrimmedText ==
  ASSUME NEW f \in Text
  PROVE  Trim(f) \in Text /\ Trim(f).word = f.word /\ ~Trim(f).padded
  BY DEF Trim, Text

\* Of a trimmed fact, only the words are compared.
LEMMA SameByWord ==
  ASSUME NEW e \in Text, NEW f \in Text, ~e.padded
  PROVE  Same(e, f) <=> e.word = f.word
<1>1. ASSUME NEW t \in Text
      PROVE  /\ ToLower(t) \in Text /\ ToLower(t).word = t.word
             /\ ToLower(t).upper = FALSE /\ ToLower(t).padded = t.padded
  BY DEF ToLower, Text
<1>2. /\ Trim(f) \in Text /\ Trim(f).word = f.word /\ Trim(f).padded = FALSE
      /\ e.padded = FALSE
  BY TrimmedText DEF Text, Trim
<1>3. ASSUME NEW t \in Text, NEW r \in Text,
             t.word = r.word, t.upper = r.upper, t.padded = r.padded
      PROVE  t = r
  BY <1>3 DEF Text
<1>4. e.word = f.word => ToLower(e) = ToLower(Trim(f))
  <2>1. /\ ToLower(e) \in Text /\ ToLower(e).word = e.word
        /\ ToLower(e).upper = FALSE /\ ToLower(e).padded = FALSE
    BY <1>1, <1>2
  <2>2. /\ ToLower(Trim(f)) \in Text /\ ToLower(Trim(f)).word = f.word
        /\ ToLower(Trim(f)).upper = FALSE /\ ToLower(Trim(f)).padded = FALSE
    BY <1>1, <1>2
  <2> HIDE DEF Trim, ToLower
  <2> QED
    BY <1>3, <2>1, <2>2
<1>5. ToLower(e) = ToLower(Trim(f)) => e.word = f.word
  <2>1. ToLower(e).word = e.word /\ ToLower(Trim(f)).word = f.word
    BY <1>1, <1>2
  <2> HIDE DEF Trim, ToLower
  <2> QED
    BY <2>1
<1> QED
  BY <1>4, <1>5 DEF Same

LEMMA WordsOfNone == WordsOf(<<>>) = {}
  BY DEF WordsOf

LEMMA WordsOfAppend ==
  ASSUME NEW s \in Seq(Text), NEW f \in Text
  PROVE  WordsOf(Append(s, f)) = WordsOf(s) \cup {f.word}
<1>1. /\ Len(s) \in Nat /\ Len(Append(s, f)) = Len(s) + 1
      /\ \A i \in 1..Len(s) : Append(s, f)[i] = s[i]
      /\ Append(s, f)[Len(s) + 1] = f
  OBVIOUS
<1>2. 1..(Len(s) + 1) = 1..Len(s) \cup {Len(s) + 1}
  BY <1>1
<1> QED
  BY <1>1, <1>2 DEF WordsOf

LEMMA WordsOfTail ==
  ASSUME NEW s \in Seq(Text), s # <<>>
  PROVE  /\ Head(s) \in Text /\ Tail(s) \in Seq(Text)
         /\ WordsOf(s) = {Head(s).word} \cup WordsOf(Tail(s))
<1>1. /\ Head(s) \in Text /\ Tail(s) \in Seq(Text) /\ Len(s) \in Nat \ {0}
      /\ Len(Tail(s)) = Len(s) - 1 /\ Head(s) = s[1]
      /\ \A i \in 1..(Len(s) - 1) : Tail(s)[i] = s[i + 1]
  OBVIOUS
<1>2. ASSUME NEW i \in 1..Len(s), i # 1
      PROVE  i - 1 \in 1..(Len(s) - 1) /\ Tail(s)[i - 1] = s[i]
  BY <1>1, <1>2
<1>3. \A i \in 1..(Len(s) - 1) : i + 1 \in 1..Len(s)
  BY <1>1
<1>4. WordsOf(s) \subseteq {Head(s).word} \cup WordsOf(Tail(s))
  BY <1>1, <1>2 DEF WordsOf
<1>5. {Head(s).word} \cup WordsOf(Tail(s)) \subseteq WordsOf(s)
  BY <1>1, <1>3 DEF WordsOf
<1> QED
  BY <1>1, <1>4, <1>5

LEMMA WordsOfConcat ==
  ASSUME NEW s \in Seq(Text), NEW r \in Seq(Text)
  PROVE  s \o r \in Seq(Text) /\ WordsOf(s \o r) = WordsOf(s) \cup WordsOf(r)
<1>1. /\ s \o r \in Seq(Text) /\ Len(s) \in Nat /\ Len(r) \in Nat
      /\ Len(s \o r) = Len(s) + Len(r)
      /\ \A i \in 1..(Len(s) + Len(r)) :
           (s \o r)[i] = IF i <= Len(s) THEN s[i] ELSE r[i - Len(s)]
  BY ConcatProperties, LenProperties
<1>2. WordsOf(s \o r) \subseteq WordsOf(s) \cup WordsOf(r)
  <2>1. ASSUME NEW i \in 1..(Len(s) + Len(r)), ~(i <= Len(s))
        PROVE  i - Len(s) \in 1..Len(r)
    BY <1>1, <2>1
  <2>2. \A i \in 1..(Len(s) + Len(r)) : i <= Len(s) => i \in 1..Len(s)
    BY <1>1
  <2> QED
    BY <1>1, <2>1, <2>2 DEF WordsOf
<1>3. WordsOf(s) \subseteq WordsOf(s \o r)
  BY <1>1 DEF WordsOf
<1>4. WordsOf(r) \subseteq WordsOf(s \o r)
  <2>1. ASSUME NEW i \in 1..Len(r)
        PROVE  /\ i + Len(s) \in 1..(Len(s) + Len(r))
               /\ (s \o r)[i + Len(s)] = r[i]
    BY <1>1, <2>1
  <2>2. \A i \in 1..Len(r) : r[i].word \in WordsOf(s \o r)
    BY <1>1, <2>1 DEF WordsOf
  <2> QED
    BY <2>2 DEF WordsOf
<1> QED
  BY <1>1, <1>2, <1>3, <1>4

LEMMA WithoutProperties ==
  ASSUME NEW s \in Seq(Text), NEW i \in 1..Len(s)
  PROVE  /\ Without(s, i) \in Seq(Text)
         /\ Len(Without(s, i)) = Len(s) - 1
         /\ \A j \in 1..(Len(s) - 1) :
              Without(s, i)[j] = IF j < i THEN s[j] ELSE s[j + 1]
<1>1. Len(s) \in Nat /\ \A j \in 1..Len(s) : s[j] \in Text
  BY LenProperties, ElementOfSeq
<1> DEFINE a == SubSeq(s, 1, i - 1)
           b == SubSeq(s, i + 1, Len(s))
<1>2. /\ a \in Seq(Text) /\ Len(a) = i - 1
      /\ \A j \in 1..(i - 1) : a[j] = s[j]
  <2>1. \A j \in 1..(i - 1) : s[j] \in Text
    BY <1>1
  <2>2. /\ a \in Seq(Text) /\ Len(a) = IF 1 <= i - 1 THEN (i - 1) - 1 + 1 ELSE 0
        /\ \A j \in 1..((i - 1) - 1 + 1) : a[j] = s[1 + j - 1]
    BY <1>1, <2>1, SubSeqProperties
  <2> QED
    BY <1>1, <2>2
<1>3. /\ b \in Seq(Text) /\ Len(b) = Len(s) - i
      /\ \A j \in 1..(Len(s) - i) : b[j] = s[i + j]
  <2>1. \A j \in (i + 1)..Len(s) : s[j] \in Text
    BY <1>1
  <2>2. /\ b \in Seq(Text)
        /\ Len(b) = IF i + 1 <= Len(s) THEN Len(s) - (i + 1) + 1 ELSE 0
        /\ \A j \in 1..(Len(s) - (i + 1) + 1) : b[j] = s[(i + 1) + j - 1]
    BY <1>1, <2>1, SubSeqProperties
  <2> QED
    BY <1>1, <2>2
<1>4. /\ a \o b \in Seq(Text) /\ Len(a \o b) = Len(a) + Len(b)
      /\ \A j \in 1..(Len(a) + Len(b)) :
           (a \o b)[j] = IF j <= Len(a) THEN a[j] ELSE b[j - Len(a)]
  BY <1>2, <1>3, ConcatProperties
<1> HIDE DEF a, b
<1>5. Len(a \o b) = Len(s) - 1
  BY <1>1, <1>2, <1>3, <1>4
<1>6. ASSUME NEW j \in 1..(Len(s) - 1)
      PROVE  (a \o b)[j] = IF j < i THEN s[j] ELSE s[j + 1]
  <2>1. (a \o b)[j] = IF j <= i - 1 THEN a[j] ELSE b[j - (i - 1)]
    BY <1>1, <1>2, <1>3, <1>4, <1>6
  <2>2. CASE j < i
    BY <1>1, <1>2, <2>1, <2>2
  <2>3. CASE ~(j < i)
    <3>1. j - (i - 1) \in 1..(Len(s) - i) /\ i + (j - (i - 1)) = j + 1
      BY <1>1, <2>3
    <3> QED
      BY <1>1, <1>3, <2>1, <2>3, <3>1
  <2> QED
    BY <2>2, <2>3
<1> QED
  BY <1>4, <1>5, <1>6 DEF Without, a, b

\* Erasing a fact from a tidy list erases its word and nothing else.
LEMMA TidyWithout ==
  ASSUME NEW s \in Seq(Text), Tidy(s), NEW i \in 1..Len(s)
  PROVE  /\ Without(s, i) \in Seq(Text) /\ Tidy(Without(s, i))
         /\ WordsOf(Without(s, i)) = WordsOf(s) \ {s[i].word}
<1> DEFINE w == Without(s, i)
<1>1. /\ w \in Seq(Text) /\ Len(w) = Len(s) - 1 /\ Len(s) \in Nat
      /\ \A j \in 1..(Len(s) - 1) : w[j] = IF j < i THEN s[j] ELSE s[j + 1]
  BY WithoutProperties, LenProperties
<1> HIDE DEF w
<1>2. /\ \A j \in 1..Len(s) : ~s[j].padded /\ s[j].word # Blank
      /\ \A j, k \in 1..Len(s) : s[j].word = s[k].word => j = k
  BY DEF Tidy
<1>3. ASSUME NEW j \in 1..Len(w)
      PROVE  ~w[j].padded /\ w[j].word # Blank
  <2>1. j \in 1..Len(s) /\ j + 1 \in 1..Len(s) /\ j \in 1..(Len(s) - 1)
    BY <1>1
  <2> QED
    BY <1>1, <1>2, <2>1
<1>4. ASSUME NEW j \in 1..Len(w), NEW k \in 1..Len(w), w[j].word = w[k].word
      PROVE  j = k
  <2> DEFINE origin(l) == IF l < i THEN l ELSE l + 1
  <2>1. \A l \in 1..Len(w) : origin(l) \in 1..Len(s) /\ w[l] = s[origin(l)]
    BY <1>1
  <2>2. origin(j) = origin(k)
    BY <1>2, <1>4, <2>1
  <2> QED
    BY <1>1, <2>2
<1>5. WordsOf(w) \subseteq WordsOf(s) \ {s[i].word}
  <2> SUFFICES ASSUME NEW l \in 1..Len(w)
               PROVE  w[l].word \in WordsOf(s) /\ w[l].word # s[i].word
    BY DEF WordsOf
  <2> DEFINE k == IF l < i THEN l ELSE l + 1
  <2>1. k \in 1..Len(s) /\ k # i /\ w[l] = s[k]
    BY <1>1
  <2> QED
    BY <1>2, <2>1 DEF WordsOf
<1>6. WordsOf(s) \ {s[i].word} \subseteq WordsOf(w)
  <2> SUFFICES ASSUME NEW k \in 1..Len(s), s[k].word # s[i].word
               PROVE  s[k].word \in WordsOf(w)
    BY DEF WordsOf
  <2> DEFINE l == IF k < i THEN k ELSE k - 1
  <2>1. l \in 1..Len(w) /\ w[l] = s[k]
    <3>1. k # i
      OBVIOUS
    <3> QED
      BY <1>1, <3>1
  <2> QED
    BY <2>1 DEF WordsOf
<1>7. Tidy(w)
  BY <1>3, <1>4 DEF Tidy
<1> QED
  BY <1>1, <1>5, <1>6, <1>7 DEF w

LEMMA TidyAppend ==
  ASSUME NEW s \in Seq(Text), Tidy(s), NEW f \in Text,
         ~f.padded, f.word # Blank, f.word \notin WordsOf(s)
  PROVE  Append(s, f) \in Seq(Text) /\ Tidy(Append(s, f))
<1>1. /\ Append(s, f) \in Seq(Text) /\ Len(s) \in Nat
      /\ Len(Append(s, f)) = Len(s) + 1
      /\ \A i \in 1..Len(s) : Append(s, f)[i] = s[i]
      /\ Append(s, f)[Len(s) + 1] = f
  OBVIOUS
<1>2. 1..(Len(s) + 1) = 1..Len(s) \cup {Len(s) + 1}
  BY <1>1
<1>3. \A i \in 1..Len(s) : s[i].word # f.word
  BY DEF WordsOf
<1>4. /\ \A j \in 1..Len(s) : ~s[j].padded /\ s[j].word # Blank
      /\ \A j, k \in 1..Len(s) : s[j].word = s[k].word => j = k
  BY DEF Tidy
<1>5. \A j \in 1..(Len(s) + 1) :
        ~Append(s, f)[j].padded /\ Append(s, f)[j].word # Blank
  BY <1>1, <1>2, <1>4
<1>6. \A j, k \in 1..(Len(s) + 1) :
        Append(s, f)[j].word = Append(s, f)[k].word => j = k
  BY <1>1, <1>2, <1>3, <1>4
<1> QED
  BY <1>1, <1>5, <1>6 DEF Tidy

\* In a tidy list the facts that match are those of the same words.
LEMMA MatchesByWord ==
  ASSUME NEW f \in Text, facts \in Seq(Text), Tidy(facts)
  PROVE  /\ Matches(f) = {i \in 1..Len(facts) : facts[i].word = f.word}
         /\ Matches(f) = {} <=> f.word \notin WordsOf(facts)
<1>1. \A i \in 1..Len(facts) : facts[i] \in Text /\ ~facts[i].padded
  BY ElementOfSeq DEF Tidy
<1>2. Matches(f) = {i \in 1..Len(facts) : facts[i].word = f.word}
  BY <1>1, SameByWord DEF Matches
<1> QED
  BY <1>2 DEF WordsOf

\* The facts extracted from a message are what the patterns capture.
LEMMA ExtractedWords ==
  ASSUME NEW m \in Said
  PROVE  /\ ExtractFacts(m) \in Seq(Text)
         /\ Given(m) \subseteq WordsOf(ExtractFacts(m))
         /\ Given(m) \subseteq Word
<1>1. m \in Message
  BY ServerAssumption
<1>2. ASSUME NEW p \in 1..3
      PROVE  /\ Found(m, p) \in Seq(Text)
             /\ m[p] # NoMatch =>
                  /\ <<Patterns[p], m[p].name>> \in Word
                  /\ <<Patterns[p], m[p].name>> \in WordsOf(Found(m, p))
  <2>1. CASE m[p] = NoMatch
    BY <2>1 DEF Found
  <2>2. CASE m[p] # NoMatch
    <3>1. m[p] \in [name : Name, upper : BOOLEAN]
      BY <1>1, <2>2 DEF Message
    <3>2. <<Patterns[p], m[p].name>> \in Word
      BY <3>1, ServerAssumption
    <3>3. /\ Format(p, m[p]) \in Text
          /\ Format(p, m[p]).word = <<Patterns[p], m[p].name>>
      BY <3>1, <3>2 DEF Format, Text
    <3>4. Found(m, p) = <<Format(p, m[p])>>
      BY <2>2 DEF Found
    <3>5. Found(m, p) \in Seq(Text) /\ Len(Found(m, p)) = 1 /\ Found(m, p)[1] = Format(p, m[p])
      BY <3>3, <3>4
    <3>6. <<Patterns[p], m[p].name>> \in WordsOf(Found(m, p))
      BY <3>3, <3>5 DEF WordsOf
    <3> QED
      BY <3>2, <3>5, <3>6
  <2> QED
    BY <2>1, <2>2
<1>3. /\ Found(m, 1) \in Seq(Text) /\ Found(m, 2) \in Seq(Text)
      /\ Found(m, 3) \in Seq(Text)
  BY <1>2
<1>4. /\ ExtractFacts(m) \in Seq(Text)
      /\ WordsOf(ExtractFacts(m)) =
           WordsOf(Found(m, 1)) \cup WordsOf(Found(m, 2)) \cup WordsOf(Found(m, 3))
  <2>1. /\ Found(m, 1) \o Found(m, 2) \in Seq(Text)
        /\ WordsOf(Found(m, 1) \o Found(m, 2)) =
             WordsOf(Found(m, 1)) \cup WordsOf(Found(m, 2))
    BY <1>3, WordsOfConcat
  <2>2. /\ (Found(m, 1) \o Found(m, 2)) \o Found(m, 3) \in Seq(Text)
        /\ WordsOf((Found(m, 1) \o Found(m, 2)) \o Found(m, 3)) =
             WordsOf(Found(m, 1) \o Found(m, 2)) \cup WordsOf(Found(m, 3))
    BY <1>3, <2>1, WordsOfConcat
  <2> QED
    BY <2>1, <2>2 DEF ExtractFacts
<1>5. ASSUME NEW w \in Given(m)
      PROVE  w \in Word /\ w \in WordsOf(ExtractFacts(m))
  <2>1. PICK p \in 1..3 : m[p] # NoMatch /\ w = <<Patterns[p], m[p].name>>
    BY DEF Given
  <2>2. w \in Word /\ w \in WordsOf(Found(m, p))
    BY <1>2, <2>1
  <2> QED
    BY <1>4, <2>2
<1> QED
  BY <1>4, <1>5

-----------------------------------------------------------------------------
\* Who saves holds the mutex, and nobody else does.
Holds(t) == pc[t] \in {"save", "write"} <=> lock = t

\* A change under way is one of a fact.
HasFact(t) == pc[t] \in {"remove", "save", "write"} => todo[t] # <<>>

\* What a handler's list will have to show is in the store or yet to be added.
Listing(t) ==
  /\ pc[t] = "idle" => due[t] = {} /\ gone[t] = {}
  /\ pc[t] \in {"add", "remove"} =>
       due[t] \subseteq WordsOf(facts) \cup WordsOf(todo[t])
  /\ pc[t] \in {"save", "write"} =>
       due[t] \subseteq WordsOf(facts) \cup WordsOf(Tail(todo[t]))
  /\ pc[t] \in {"add", "save", "write"} => gone[t] \cap WordsOf(facts) = {}
  /\ pc[t] = "remove" =>
       gone[t] \cap WordsOf(facts) \subseteq {Head(todo[t]).word}
  /\ pc[t] = "answer" =>
       due[t] \subseteq WordsOf(listed[t]) /\ gone[t] \cap WordsOf(listed[t]) = {}

\* No handler outlives its process.
Alone == ~up => \A t \in Thread : pc[t] = "idle"

IInv ==
  /\ TypeOK
  /\ StaysTidy
  /\ Tidy(file.facts)
  /\ FileInStep
  /\ Alone
  /\ \A t \in Thread : Holds(t) /\ HasFact(t) /\ Listing(t)

LEMMA InitIInv == Init => IInv
<1> SUFFICES ASSUME Init PROVE IInv
  OBVIOUS
<1>1. /\ file \in [state : {"missing", "torn", "whole"}, facts : Seq(Text)]
      /\ Tidy(file.facts)
  <2>1. Tidy(<<>>) /\ <<>> \in Seq(Text)
    BY DEF Tidy
  <2>2. \A r \in Kept : r \in Seq(Text) /\ Tidy(r)
    BY KeptAssumption
  <2>3. \/ file = [state |-> "missing", facts |-> <<>>]
        \/ file = [state |-> "torn", facts |-> <<>>]
        \/ \E r \in Kept : file = Whole(r)
    BY DEF Init, MInit, Missing, Torn
  <2>4. ASSUME NEW x \in {"missing", "torn"}, file = [state |-> x, facts |-> <<>>]
        PROVE  /\ file \in [state : {"missing", "torn", "whole"}, facts : Seq(Text)]
               /\ Tidy(file.facts)
    BY <2>1, <2>4
  <2>5. ASSUME NEW r \in Kept, file = Whole(r)
        PROVE  /\ file \in [state : {"missing", "torn", "whole"}, facts : Seq(Text)]
               /\ Tidy(file.facts)
    BY <2>2, <2>5 DEF Whole
  <2> QED
    BY <2>3, <2>4, <2>5
<1>2. TypeOK
  BY <1>1 DEF TypeOK, MTypeOK, Init, MInit
<1>3. StaysTidy /\ FileInStep /\ Alone
  BY <1>1 DEF Init, MInit, StaysTidy, FileInStep, Alone
<1>4. \A t \in Thread : Holds(t) /\ HasFact(t) /\ Listing(t)
  BY StoreAssumption DEF Init, MInit, Holds, HasFact, Listing
<1> QED
  BY <1>1, <1>2, <1>3, <1>4 DEF IInv

\* What the handlers do, with the store's part spelled out.
LEMMA TypeStep ==
  ASSUME IInv, [Next]_vars
  PROVE  TypeOK'
<1>0. TypeOK /\ \A t \in Thread : HasFact(t)
  BY DEF IInv
<1>1. \A t \in Thread : todo[t] \in Seq(Text)
  BY <1>0 DEF TypeOK
<1>2. CASE UNCHANGED vars
  BY <1>0, <1>2 DEF TypeOK, MTypeOK, vars, mvars, handler, history
<1>3. CASE Crash
  <2>1. unsaved' \in BOOLEAN
    BY <1>0, <1>3, Zenon DEF TypeOK, MTypeOK, Crash, Die
  <2>2. MTypeOK'
    BY <1>0, <1>3, <2>1 DEF TypeOK, MTypeOK, Crash, Die
  <2>3. <<>> \in Seq(Text) /\ {} \in SUBSET Word
    OBVIOUS
  <2>4. /\ todo' \in [Thread -> Seq(Text)] /\ listed' \in [Thread -> Seq(Text)]
        /\ due' \in [Thread -> SUBSET Word] /\ gone' \in [Thread -> SUBSET Word]
    BY <1>3, <2>3 DEF Crash
  <2>5. requests' \in Nat /\ crashes' \in Nat
    <3>1. requests \in Nat /\ crashes \in Nat
      BY <1>0 DEF TypeOK
    <3>2. requests' = requests /\ crashes' = crashes + 1
      BY <1>3 DEF Crash
    <3> QED
      BY <3>1, <3>2
  <2>6. /\ up' \in BOOLEAN
        /\ pc' \in [Thread -> {"idle", "add", "remove", "save", "write", "answer"}]
    BY <1>3 DEF Crash
  <2> QED
    BY <2>2, <2>4, <2>5, <2>6 DEF TypeOK
<1>4. CASE Restart
  BY <1>0, <1>4 DEF TypeOK, MTypeOK, Restart, Load, handler, history
<1>5. ASSUME NEW t \in Thread, Arrive(t)
      PROVE  TypeOK'
  <2>1. ASSUME NEW what \in {"idle", "add", "remove"}, NEW texts \in Seq(Text),
               NEW said \in SUBSET Word, NEW unsaid \in SUBSET Word,
               Begin(t, what, texts, said, unsaid)
        PROVE  TypeOK'
    BY <1>0, <2>1 DEF TypeOK, MTypeOK, Begin, mvars
  <2>2. /\ <<>> \in Seq(Text) /\ {} \in SUBSET Word
        /\ \A f \in Typed : <<f>> \in Seq(Text) /\ {f.word} \in SUBSET Word
    BY ServerAssumption DEF Text
  <2>3. CASE GetMemory(t)
    BY <2>1, <2>2, <2>3 DEF GetMemory
  <2>4. CASE PostMemory(t)
    BY <2>1, <2>2, <2>4 DEF PostMemory
  <2>5. CASE DeleteMemory(t)
    BY <2>1, <2>2, <2>5 DEF DeleteMemory
  <2>6. CASE PostChat(t)
    <3>1. PICK m \in Said : Begin(t, "add", ExtractFacts(m), Given(m), {})
      BY <2>6 DEF PostChat
    <3>2. ExtractFacts(m) \in Seq(Text) /\ Given(m) \in SUBSET Word
      BY ExtractedWords
    <3> QED
      BY <2>1, <3>1, <3>2
  <2>7. CASE BadRequest(t)
    BY <2>1, <2>2, <2>7 DEF BadRequest
  <2> QED
    BY <1>5, <2>3, <2>4, <2>5, <2>6, <2>7 DEF Arrive
<1>6. ASSUME NEW t \in Thread, Handle(t)
      PROVE  TypeOK'
  <2>1. todo[t] # <<>> =>
          /\ NextFact(t) \in Text /\ NextFact(t).word \in Word
          /\ Trim(NextFact(t)) \in Text /\ OtherFacts(t) \in Seq(Text)
    <3>1. todo[t] # <<>> => Head(todo[t]) \in Text /\ Tail(todo[t]) \in Seq(Text)
      BY <1>1, WordsOfTail
    <3>2. \A f \in Text : f.word \in Word
      BY DEF Text
    <3> QED
      BY <3>1, <3>2, TrimmedText DEF NextFact, OtherFacts
  <2>2. pc[t] \in {"remove", "save", "write"} => todo[t] # <<>>
    BY <1>0 DEF HasFact
  <2>3. ASSUME NEW w \in Word, Shows(t, w)
        PROVE  due' \in [Thread -> SUBSET Word] /\ gone' \in [Thread -> SUBSET Word]
    BY <1>0, <2>3 DEF TypeOK, MTypeOK, Shows
  <2>4. ASSUME NEW w \in Word, Hides(t, w)
        PROVE  due' \in [Thread -> SUBSET Word] /\ gone' \in [Thread -> SUBSET Word]
    BY <1>0, <2>4 DEF TypeOK, MTypeOK, Hides
  <2>5. CASE AddNew(t)
    <3>1. facts' \in Seq(Text)
      BY <1>0, <2>1, <2>5 DEF TypeOK, MTypeOK, AddNew, Remember
    <3>2. due' \in [Thread -> SUBSET Word] /\ gone' \in [Thread -> SUBSET Word]
      BY <2>1, <2>3, <2>5 DEF AddNew
    <3> QED
      BY <1>0, <2>5, <3>1, <3>2 DEF TypeOK, MTypeOK, AddNew, Remember
  <2>6. CASE AddKnown(t)
    <3>1. due' \in [Thread -> SUBSET Word] /\ gone' \in [Thread -> SUBSET Word]
      BY <2>1, <2>3, <2>6 DEF AddKnown
    <3> QED
      BY <1>0, <2>1, <2>6, <3>1 DEF TypeOK, MTypeOK, AddKnown, PassOver, mvars
  <2>7. CASE RemoveKnown(t)
    <3>1. facts' \in Seq(Text)
      <4>1. PICK i \in Matches(NextFact(t)) : facts' = Without(facts, i)
        BY <2>7 DEF RemoveKnown, Forget
      <4>2. i \in 1..Len(facts)
        BY DEF Matches
      <4> QED
        BY <1>0, <4>1, <4>2, WithoutProperties DEF TypeOK, MTypeOK
    <3>2. due' \in [Thread -> SUBSET Word] /\ gone' \in [Thread -> SUBSET Word]
      BY <2>1, <2>2, <2>4, <2>7 DEF RemoveKnown
    <3> QED
      BY <1>0, <2>7, <3>1, <3>2 DEF TypeOK, MTypeOK, RemoveKnown, Forget
  <2>8. CASE RemoveUnknown(t)
    <3>1. due' \in [Thread -> SUBSET Word] /\ gone' \in [Thread -> SUBSET Word]
      BY <2>1, <2>2, <2>4, <2>8 DEF RemoveUnknown
    <3> QED
      BY <1>0, <2>1, <2>2, <2>8, <3>1 DEF TypeOK, MTypeOK, RemoveUnknown, NotFound, mvars
  <2>9. CASE SaveBegins(t)
    BY <1>0, <2>9 DEF TypeOK, MTypeOK, SaveBegins, Truncate, Torn, history
  <2>10. CASE SaveEnds(t)
    <3>1. OtherFacts(t) \in Seq(Text)
      BY <2>1, <2>2, <2>10 DEF SaveEnds
    <3>2. /\ lock' = NoThread /\ facts' = facts /\ unsaved' \in BOOLEAN
          /\ file' = file \/ file' = Whole(facts)
      BY <2>10 DEF SaveEnds, FailToOpen, FailToWrite, Write
    <3>3. file' \in [state : {"missing", "torn", "whole"}, facts : Seq(Text)]
      BY <1>0, <3>2 DEF TypeOK, MTypeOK, Whole
    <3> QED
      BY <1>0, <2>10, <3>1, <3>2, <3>3 DEF TypeOK, MTypeOK, SaveEnds, history
  <2>11. CASE List(t)
    BY <1>0, <2>11 DEF TypeOK, MTypeOK, List, mvars, history
  <2>12. CASE Answer(t)
    BY <1>0, <2>12 DEF TypeOK, MTypeOK, Answer, mvars
  <2> QED
    BY <1>6, <2>5, <2>6, <2>7, <2>8, <2>9, <2>10, <2>11, <2>12 DEF Handle
<1> QED
  BY <1>2, <1>3, <1>4, <1>5, <1>6 DEF Next

-----------------------------------------------------------------------------
\* What the four changes do to the words of the store.
LEMMA AddNewWords ==
  ASSUME IInv, NEW t \in Thread, AddNew(t)
  PROVE  /\ Tidy(facts')
         /\ WordsOf(facts') = WordsOf(facts) \cup {NextFact(t).word}
         /\ NextFact(t).word \in Word \ {Blank}
         /\ NextFact(t).word \notin WordsOf(facts)
         /\ lock = NoThread /\ lock' = t /\ file' = file /\ unsaved' = unsaved
<1> DEFINE f == NextFact(t)
<1>1. facts \in Seq(Text) /\ Tidy(facts) /\ todo[t] \in Seq(Text) /\ todo[t] # <<>>
  BY DEF IInv, TypeOK, MTypeOK, StaysTidy, AddNew
<1>2. f \in Text /\ f.word \in Word
  BY <1>1, WordsOfTail DEF NextFact, Text
<1>3. /\ lock = NoThread /\ lock' = t /\ file' = file /\ unsaved' = unsaved
      /\ f.word # Blank /\ Matches(f) = {} /\ facts' = Append(facts, Trim(f))
  BY DEF AddNew, Remember, Free
<1> HIDE DEF f
<1>4. f.word \notin WordsOf(facts)
  BY <1>1, <1>2, <1>3, MatchesByWord
<1>5. Trim(f) \in Text /\ Trim(f).word = f.word /\ ~Trim(f).padded
  BY <1>2, TrimmedText
<1>6. Tidy(facts') /\ WordsOf(facts') = WordsOf(facts) \cup {f.word}
  BY <1>1, <1>3, <1>4, <1>5, TidyAppend, WordsOfAppend
<1> QED
  BY <1>2, <1>3, <1>4, <1>6 DEF f

LEMMA AddKnownWords ==
  ASSUME IInv, NEW t \in Thread, AddKnown(t)
  PROVE  /\ UNCHANGED mvars
         /\ NextFact(t).word \in {Blank} \cup WordsOf(facts)
<1>1. facts \in Seq(Text) /\ Tidy(facts) /\ todo[t] \in Seq(Text) /\ todo[t] # <<>>
  BY DEF IInv, TypeOK, MTypeOK, StaysTidy, AddKnown
<1>2. NextFact(t) \in Text
  BY <1>1, WordsOfTail DEF NextFact
<1>3. UNCHANGED mvars /\ (NextFact(t).word = Blank \/ Matches(NextFact(t)) # {})
  BY DEF AddKnown, PassOver
<1> QED
  BY <1>1, <1>2, <1>3, MatchesByWord

LEMMA RemoveKnownWords ==
  ASSUME IInv, NEW t \in Thread, RemoveKnown(t)
  PROVE  /\ Tidy(facts')
         /\ WordsOf(facts') = WordsOf(facts) \ {NextFact(t).word}
         /\ NextFact(t).word \in Word \ {Blank}
         /\ NextFact(t).word \in WordsOf(facts)
         /\ lock = NoThread /\ lock' = t /\ file' = file /\ unsaved' = unsaved
<1> DEFINE f == NextFact(t)
<1>1. facts \in Seq(Text) /\ Tidy(facts) /\ todo[t] \in Seq(Text) /\ todo[t] # <<>>
  BY DEF IInv, TypeOK, MTypeOK, StaysTidy, HasFact, RemoveKnown
<1>2. f \in Text /\ f.word \in Word
  BY <1>1, WordsOfTail DEF NextFact, Text
<1>3. /\ lock = NoThread /\ lock' = t /\ file' = file /\ unsaved' = unsaved
      /\ f.word # Blank /\ \E i \in Matches(f) : facts' = Without(facts, i)
  BY DEF RemoveKnown, Forget, Free
<1> HIDE DEF f
<1>4. PICK i \in Matches(f) : facts' = Without(facts, i)
  BY <1>3
<1>5. i \in 1..Len(facts) /\ facts[i].word = f.word
  BY <1>1, <1>2, MatchesByWord
<1>6. Tidy(facts') /\ WordsOf(facts') = WordsOf(facts) \ {f.word}
  BY <1>1, <1>4, <1>5, TidyWithout
<1>7. f.word \in WordsOf(facts)
  BY <1>5 DEF WordsOf
<1> QED
  BY <1>2, <1>3, <1>6, <1>7 DEF f

LEMMA RemoveUnknownWords ==
  ASSUME IInv, NEW t \in Thread, RemoveUnknown(t)
  PROVE  /\ UNCHANGED mvars
         /\ NextFact(t).word = Blank \/ NextFact(t).word \notin WordsOf(facts)
<1>1. facts \in Seq(Text) /\ Tidy(facts) /\ todo[t] \in Seq(Text) /\ todo[t] # <<>>
  BY DEF IInv, TypeOK, MTypeOK, StaysTidy, HasFact, RemoveUnknown
<1>2. NextFact(t) \in Text
  BY <1>1, WordsOfTail DEF NextFact
<1>3. UNCHANGED mvars /\ (NextFact(t).word = Blank \/ Matches(NextFact(t)) = {})
  BY DEF RemoveUnknown, NotFound
<1> QED
  BY <1>1, <1>2, <1>3, MatchesByWord

-----------------------------------------------------------------------------
\* The rest of what each step does to the store.
LEMMA OtherStoreSteps ==
  ASSUME IInv, NEW t \in Thread
  PROVE  /\ Arrive(t) \/ List(t) \/ Answer(t) => UNCHANGED mvars
         /\ SaveBegins(t) =>
              /\ lock = t /\ lock' = t /\ facts' = facts /\ unsaved' = unsaved
              /\ file' = Torn
         /\ SaveEnds(t) =>
              /\ lock = t /\ lock' = NoThread /\ facts' = facts
              /\ \/ unsaved' = TRUE /\ file' = file
                 \/ unsaved' = FALSE /\ file' = Whole(facts)
<1>1. Holds(t)
  BY DEF IInv
<1>2. Arrive(t) => UNCHANGED mvars
  BY DEF Arrive, GetMemory, PostMemory, DeleteMemory, PostChat, BadRequest, Begin
<1>3. List(t) \/ Answer(t) => UNCHANGED mvars
  BY DEF List, Answer
<1>4. SaveBegins(t) =>
        /\ lock = t /\ lock' = t /\ facts' = facts /\ unsaved' = unsaved
        /\ file' = Torn
  BY <1>1 DEF Holds, SaveBegins, Truncate
<1>5. SaveEnds(t) => lock = t
  BY <1>1 DEF Holds, SaveEnds
<1>6. SaveEnds(t) =>
        /\ lock' = NoThread /\ facts' = facts
        /\ \/ unsaved' = TRUE /\ file' = file
           \/ unsaved' = FALSE /\ file' = Whole(facts)
  BY DEF SaveEnds, FailToOpen, FailToWrite, Write
<1> QED
  BY <1>2, <1>3, <1>4, <1>5, <1>6

LEMMA StoreStep ==
  ASSUME IInv, [Next]_vars
  PROVE  StaysTidy' /\ Tidy(file.facts)' /\ FileInStep'
<1>0. /\ Tidy(facts) /\ Tidy(file.facts) /\ FileInStep
      /\ \A t \in Thread : t # NoThread
  BY StoreAssumption DEF IInv, StaysTidy
<1>1. ASSUME UNCHANGED mvars
      PROVE  StaysTidy' /\ Tidy(file.facts)' /\ FileInStep'
  BY <1>0, <1>1 DEF mvars, StaysTidy, FileInStep
<1>2. CASE UNCHANGED vars
  BY <1>1, <1>2 DEF vars
<1>3. CASE Crash
  <2>1. facts' = facts /\ file' = file /\ unsaved' = (unsaved \/ lock # NoThread)
    BY <1>3 DEF Crash, Die
  <2>2. FileInStep'
    BY <1>0, <2>1 DEF FileInStep
  <2> QED
    BY <1>0, <2>1, <2>2 DEF StaysTidy
<1>4. CASE Restart
  <2>1. facts' = file.facts /\ file' = file /\ unsaved' = (file.state = "torn")
    BY <1>4 DEF Restart, Load
  <2>2. FileInStep'
    BY <2>1 DEF FileInStep
  <2> QED
    BY <1>0, <2>1, <2>2 DEF StaysTidy
<1>5. ASSUME NEW t \in Thread, Arrive(t) \/ Handle(t)
      PROVE  StaysTidy' /\ Tidy(file.facts)' /\ FileInStep'
  <2>1. CASE AddNew(t)
    BY <1>0, <2>1, AddNewWords DEF StaysTidy, FileInStep
  <2>2. CASE AddKnown(t)
    BY <1>1, <2>2, AddKnownWords
  <2>3. CASE RemoveKnown(t)
    BY <1>0, <2>3, RemoveKnownWords DEF StaysTidy, FileInStep
  <2>4. CASE RemoveUnknown(t)
    BY <1>1, <2>4, RemoveUnknownWords
  <2>5. CASE SaveBegins(t)
    <3>1. Tidy(Torn.facts)
      BY DEF Torn, Tidy
    <3> QED
      BY <1>0, <2>5, <3>1, OtherStoreSteps DEF StaysTidy, FileInStep
  <2>6. CASE SaveEnds(t)
    <3>1. Whole(facts).facts = facts /\ Whole(facts).state = "whole"
      BY DEF Whole
    <3>2. /\ facts' = facts
          /\ \/ unsaved' = TRUE /\ file' = file
             \/ unsaved' = FALSE /\ file' = Whole(facts)
      BY <2>6, OtherStoreSteps
    <3>3. CASE unsaved' = TRUE /\ file' = file
      BY <1>0, <3>2, <3>3 DEF StaysTidy, FileInStep
    <3>4. CASE unsaved' = FALSE /\ file' = Whole(facts)
      BY <1>0, <3>1, <3>2, <3>4 DEF StaysTidy, FileInStep
    <3> QED
      BY <3>2, <3>3, <3>4
  <2>7. CASE Arrive(t) \/ List(t) \/ Answer(t)
    BY <1>1, <2>7, OtherStoreSteps
  <2> QED
    BY <1>5, <2>1, <2>2, <2>3, <2>4, <2>5, <2>6, <2>7 DEF Handle
<1> QED
  BY <1>2, <1>3, <1>4, <1>5 DEF Next

-----------------------------------------------------------------------------
\* A step of one thread leaves the handlers of the others alone.
LEMMA OthersStay ==
  ASSUME IInv, NEW t \in Thread, Arrive(t) \/ Handle(t), NEW u \in Thread, u # t
  PROVE  pc'[u] = pc[u] /\ todo'[u] = todo[u] /\ listed'[u] = listed[u]
<1>1. /\ pc \in [Thread -> {"idle", "add", "remove", "save", "write", "answer"}]
      /\ todo \in [Thread -> Seq(Text)] /\ listed \in [Thread -> Seq(Text)]
  BY DEF IInv, TypeOK
<1>2. CASE Arrive(t)
  BY <1>1, <1>2 DEF Arrive, GetMemory, PostMemory, DeleteMemory, PostChat,
                    BadRequest, Begin
<1>3. CASE AddNew(t) \/ AddKnown(t) \/ RemoveKnown(t) \/ RemoveUnknown(t)
  BY <1>1, <1>3 DEF AddNew, AddKnown, RemoveKnown, RemoveUnknown
<1>4. CASE SaveBegins(t) \/ SaveEnds(t) \/ List(t) \/ Answer(t)
  BY <1>1, <1>4 DEF SaveBegins, SaveEnds, List, Answer
<1> QED
  BY <1>2, <1>3, <1>4 DEF Handle

LEMMA LockStep ==
  ASSUME IInv, [Next]_vars
  PROVE  Alone' /\ \A u \in Thread : Holds(u)' /\ HasFact(u)'
<1>0. /\ \A u \in Thread : Holds(u) /\ HasFact(u) /\ u # NoThread
      /\ Alone
      /\ pc \in [Thread -> {"idle", "add", "remove", "save", "write", "answer"}]
      /\ todo \in [Thread -> Seq(Text)]
  BY StoreAssumption DEF IInv, TypeOK
<1>1. CASE UNCHANGED vars
  BY <1>0, <1>1 DEF vars, mvars, handler, Alone, Holds, HasFact
<1>2. CASE Crash
  BY <1>0, <1>2 DEF Crash, Die, Alone, Holds, HasFact
<1>3. CASE Restart
  <2>1. up' = TRUE /\ pc' = pc /\ todo' = todo /\ lock' = lock
    BY <1>3 DEF Restart, handler
  <2> QED
    BY <1>0, <2>1 DEF Alone, Holds, HasFact
<1>4. ASSUME NEW t \in Thread, Arrive(t) \/ Handle(t)
      PROVE  Alone' /\ \A u \in Thread : Holds(u)' /\ HasFact(u)'
  <2>1. up' = up /\ (up \/ pc[t] # "idle")
    <3>1. CASE Arrive(t)
      BY <3>1 DEF Arrive, GetMemory, PostMemory, DeleteMemory, PostChat,
                  BadRequest, Begin
    <3>2. CASE Handle(t)
      BY <3>2 DEF Handle, AddNew, AddKnown, RemoveKnown, RemoveUnknown,
                  SaveBegins, SaveEnds, MayList, List, Answer
    <3> QED
      BY <1>4, <3>1, <3>2
  <2>2. Alone'
    BY <1>0, <2>1 DEF Alone
  <2>3. Holds(t)' /\ HasFact(t)' /\
          (lock' = lock \/ (lock = NoThread /\ lock' = t) \/ (lock = t /\ lock' = NoThread))
    <3>1. CASE Arrive(t)
      <4>1. ASSUME NEW what \in {"idle", "add"}, NEW texts, NEW said, NEW unsaid,
                   Begin(t, what, texts, said, unsaid)
            PROVE  Holds(t)' /\ HasFact(t)' /\ lock' = lock
        BY <1>0, <4>1 DEF Begin, Holds, HasFact, mvars
      <4>2. ASSUME NEW f, NEW said, NEW unsaid, Begin(t, "remove", <<f>>, said, unsaid)
            PROVE  Holds(t)' /\ HasFact(t)' /\ lock' = lock
        <5>1. <<f>> # <<>>
          OBVIOUS
        <5>2. lock' = lock /\ pc[t] = "idle" /\ pc'[t] = "remove" /\ todo'[t] = <<f>>
          BY <1>0, <4>2 DEF Begin, mvars
        <5> QED
          BY <1>0, <5>1, <5>2 DEF Holds, HasFact
      <4> QED
        BY <3>1, <4>1, <4>2 DEF Arrive, GetMemory, PostMemory, DeleteMemory,
                                PostChat, BadRequest
    <3>2. CASE AddNew(t)
      BY <1>0, <3>2 DEF AddNew, Remember, Free, Holds, HasFact
    <3>3. CASE AddKnown(t)
      BY <1>0, <3>3 DEF AddKnown, PassOver, mvars, Holds, HasFact
    <3>4. CASE RemoveKnown(t)
      BY <1>0, <3>4 DEF RemoveKnown, Forget, Free, Holds, HasFact
    <3>5. CASE RemoveUnknown(t)
      BY <1>0, <3>5 DEF RemoveUnknown, NotFound, mvars, Holds, HasFact
    <3>6. CASE SaveBegins(t)
      BY <1>0, <3>6 DEF SaveBegins, Truncate, Holds, HasFact
    <3>7. CASE SaveEnds(t)
      <4>1. lock = t /\ lock' = NoThread /\ pc'[t] = "add"
        BY <1>0, <3>7, OtherStoreSteps DEF SaveEnds
      <4> QED
        BY <1>0, <4>1 DEF Holds, HasFact
    <3>8. CASE List(t)
      BY <1>0, <3>8 DEF List, MayList, mvars, Holds, HasFact
    <3>9. CASE Answer(t)
      BY <1>0, <3>9 DEF Answer, mvars, Holds, HasFact
    <3> QED
      BY <1>4, <3>1, <3>2, <3>3, <3>4, <3>5, <3>6, <3>7, <3>8, <3>9 DEF Handle
  <2>4. ASSUME NEW u \in Thread, u # t
        PROVE  Holds(u)' /\ HasFact(u)'
    <3>1. pc'[u] = pc[u] /\ todo'[u] = todo[u]
      BY <1>4, <2>4, OthersStay
    <3>2. lock' = u <=> lock = u
      BY <1>0, <2>3, <2>4
    <3> QED
      BY <1>0, <3>1, <3>2 DEF Holds, HasFact
  <2> QED
    BY <2>2, <2>3, <2>4
<1> QED
  BY <1>1, <1>2, <1>3, <1>4 DEF Next

-----------------------------------------------------------------------------
\* A handler that stays where it is still shows what it has to, if no word it
\* has to show is lost and none it must not show is new.
LEMMA StillListing ==
  ASSUME NEW u \in Thread, Listing(u),
         pc'[u] = pc[u], todo'[u] = todo[u], listed'[u] = listed[u],
         due'[u] \subseteq due[u], gone'[u] \subseteq gone[u],
         due'[u] \cap WordsOf(facts) \subseteq WordsOf(facts'),
         gone'[u] \cap WordsOf(facts') \subseteq WordsOf(facts)
  PROVE  Listing(u)'
  BY DEF Listing

LEMMA ListStep ==
  ASSUME IInv, [Next]_vars
  PROVE  \A u \in Thread : Listing(u)'
<1>0. /\ \A u \in Thread : Listing(u) /\ HasFact(u)
      /\ pc \in [Thread -> {"idle", "add", "remove", "save", "write", "answer"}]
      /\ todo \in [Thread -> Seq(Text)] /\ listed \in [Thread -> Seq(Text)]
      /\ due \in [Thread -> SUBSET Word] /\ gone \in [Thread -> SUBSET Word]
      /\ facts \in Seq(Text) /\ Alone
      /\ Blank \notin WordsOf(facts)
  BY DEF IInv, TypeOK, MTypeOK, StaysTidy, Tidy, WordsOf
<1>1. CASE UNCHANGED vars
  BY <1>0, <1>1 DEF vars, mvars, handler, history, Listing
<1>2. CASE Crash
  BY <1>0, <1>2 DEF Crash, Listing
<1>3. CASE Restart
  <2>1. /\ pc' = pc /\ due' = due /\ gone' = gone
        /\ \A u \in Thread : pc[u] = "idle"
    BY <1>0, <1>3 DEF Restart, handler, history, Alone
  <2> QED
    BY <1>0, <2>1 DEF Listing
<1>4. ASSUME NEW t \in Thread, Arrive(t)
      PROVE  \A u \in Thread : Listing(u)'
  <2>1. ASSUME NEW what \in {"idle", "add", "remove"}, NEW texts,
               NEW said, NEW unsaid, Begin(t, what, texts, said, unsaid),
               what = "idle" => said = {} /\ unsaid = {},
               what = "add" => unsaid = {},
               what # "idle" => said \subseteq WordsOf(texts),
               what = "remove" => unsaid \subseteq {Head(texts).word}
        PROVE  \A u \in Thread : Listing(u)'
    <3>1. /\ pc'[t] = what /\ todo'[t] = texts /\ facts' = facts
          /\ due'[t] = said \ {Blank} /\ gone'[t] = unsaid \ {Blank}
          /\ \A u \in Thread : u # t =>
               /\ pc'[u] = pc[u] /\ todo'[u] = todo[u] /\ listed'[u] = listed[u]
               /\ due'[u] = due[u] /\ gone'[u] = gone[u]
      BY <1>0, <2>1 DEF Begin, mvars
    <3>2. Listing(t)'
      BY <2>1, <3>1 DEF Listing
    <3>3. \A u \in Thread : u # t => Listing(u)'
      BY <1>0, <3>1 DEF Listing
    <3> QED
      BY <3>2, <3>3
  <2>2. \A f \in Typed : {f.word} \subseteq WordsOf(<<f>>) /\ Head(<<f>>) = f
    BY DEF WordsOf
  <2>3. CASE GetMemory(t)
    BY <2>1, <2>3 DEF GetMemory
  <2>4. CASE PostMemory(t)
    BY <2>1, <2>2, <2>4 DEF PostMemory
  <2>5. CASE DeleteMemory(t)
    BY <2>1, <2>2, <2>5 DEF DeleteMemory
  <2>6. CASE PostChat(t)
    <3>1. PICK m \in Said : Begin(t, "add", ExtractFacts(m), Given(m), {})
      BY <2>6 DEF PostChat
    <3>2. Given(m) \subseteq WordsOf(ExtractFacts(m))
      BY ExtractedWords
    <3> QED
      BY <2>1, <3>1, <3>2
  <2>7. CASE BadRequest(t)
    BY <2>1, <2>7 DEF BadRequest
  <2> QED
    BY <1>4, <2>3, <2>4, <2>5, <2>6, <2>7 DEF Arrive
<1>5. ASSUME NEW t \in Thread, Handle(t)
      PROVE  \A u \in Thread : Listing(u)'
  <2> DEFINE w == NextFact(t).word
  <2>1. todo[t] # <<>> =>
          /\ Head(todo[t]) = NextFact(t) /\ Tail(todo[t]) = OtherFacts(t)
          /\ WordsOf(todo[t]) = {w} \cup WordsOf(Tail(todo[t]))
    BY <1>0, WordsOfTail DEF NextFact, OtherFacts
  <2>2. pc[t] \in {"remove", "save", "write"} => todo[t] # <<>>
    BY <1>0 DEF HasFact
  <2>3. Listing(t)
    BY <1>0
  <2>4. ASSUME NEW u \in Thread, u # t
        PROVE  pc'[u] = pc[u] /\ todo'[u] = todo[u] /\ listed'[u] = listed[u]
    BY <1>5, <2>4, OthersStay
  <2>5. ASSUME Shows(t, w)
        PROVE  /\ due'[t] = (due[t] \cup {w}) \ {Blank} /\ gone'[t] = gone[t] \ {w}
               /\ \A u \in Thread : u # t =>
                    due'[u] = due[u] /\ gone'[u] = gone[u] \ {w}
    BY <1>0, <2>5 DEF Shows
  <2>6. ASSUME Hides(t, w)
        PROVE  /\ due'[t] = due[t] \ {w} /\ gone'[t] = (gone[t] \cup {w}) \ {Blank}
               /\ \A u \in Thread : u # t =>
                    due'[u] = due[u] \ {w} /\ gone'[u] = gone[u]
    BY <1>0, <2>6 DEF Hides
  <2>7. ASSUME UNCHANGED history
        PROVE  \A u \in Thread : due'[u] = due[u] /\ gone'[u] = gone[u]
    BY <2>7 DEF history
  <2> HIDE DEF w
  <2>8. CASE AddNew(t)
    <3>1. pc[t] = "add" /\ todo[t] # <<>> /\ pc'[t] = "save" /\ todo' = todo /\ Shows(t, w)
      BY <1>0, <2>8 DEF AddNew, w
    <3>2. WordsOf(facts') = WordsOf(facts) \cup {w} /\ w # Blank
      BY <2>8, AddNewWords DEF w
    <3>3. Listing(t)'
      BY <2>1, <2>3, <2>5, <3>1, <3>2 DEF Listing
    <3>4. \A u \in Thread : u # t => Listing(u)'
      BY <1>0, <2>4, <2>5, <3>1, <3>2, StillListing
    <3> QED
      BY <3>3, <3>4
  <2>9. CASE AddKnown(t)
    <3>1. /\ pc[t] = "add" /\ todo[t] # <<>> /\ pc'[t] = "add"
          /\ todo'[t] = OtherFacts(t) /\ Shows(t, w)
      BY <1>0, <2>9 DEF AddKnown, w
    <3>2. facts' = facts /\ w \in {Blank} \cup WordsOf(facts)
      BY <2>9, AddKnownWords DEF w, mvars
    <3>3. Listing(t)'
      BY <2>1, <2>3, <2>5, <3>1, <3>2 DEF Listing
    <3>4. \A u \in Thread : u # t => Listing(u)'
      BY <1>0, <2>4, <2>5, <3>1, <3>2, StillListing
    <3> QED
      BY <3>3, <3>4
  <2>10. CASE RemoveKnown(t)
    <3>1. pc[t] = "remove" /\ pc'[t] = "save" /\ todo' = todo /\ Hides(t, w)
      BY <1>0, <2>10 DEF RemoveKnown, w
    <3>2. WordsOf(facts') = WordsOf(facts) \ {w} /\ w # Blank
      BY <2>10, RemoveKnownWords DEF w
    <3>3. Listing(t)'
      <4>1. /\ due[t] \subseteq WordsOf(facts) \cup {w} \cup WordsOf(Tail(todo[t]))
            /\ gone[t] \cap WordsOf(facts) \subseteq {w}
        BY <2>1, <2>2, <2>3, <3>1 DEF Listing, w
      <4>2. due'[t] = due[t] \ {w} /\ gone'[t] = (gone[t] \cup {w}) \ {Blank}
        BY <2>6, <3>1
      <4>3. /\ due'[t] \subseteq WordsOf(facts') \cup WordsOf(Tail(todo'[t]))
            /\ gone'[t] \cap WordsOf(facts') = {}
        BY <3>1, <3>2, <4>1, <4>2
      <4> QED
        BY <3>1, <4>3 DEF Listing
    <3>4. \A u \in Thread : u # t => Listing(u)'
      BY <1>0, <2>4, <2>6, <3>1, <3>2, StillListing
    <3> QED
      BY <3>3, <3>4
  <2>11. CASE RemoveUnknown(t)
    <3>1. /\ pc[t] = "remove" /\ pc'[t] = "add" /\ todo'[t] = OtherFacts(t)
          /\ Hides(t, w)
      BY <1>0, <2>11 DEF RemoveUnknown, w
    <3>2. facts' = facts /\ (w = Blank \/ w \notin WordsOf(facts))
      BY <2>11, RemoveUnknownWords DEF w, mvars
    <3>3. Listing(t)'
      <4>1. /\ due[t] \subseteq WordsOf(facts) \cup {w} \cup WordsOf(OtherFacts(t))
            /\ gone[t] \cap WordsOf(facts) \subseteq {w}
        BY <2>1, <2>2, <2>3, <3>1 DEF Listing, w
      <4>2. due'[t] = due[t] \ {w} /\ gone'[t] = (gone[t] \cup {w}) \ {Blank}
        BY <2>6, <3>1
      <4>3. /\ due'[t] \subseteq WordsOf(facts') \cup WordsOf(todo'[t])
            /\ gone'[t] \cap WordsOf(facts') = {}
        BY <1>0, <3>1, <3>2, <4>1, <4>2
      <4> QED
        BY <3>1, <4>3 DEF Listing
    <3>4. \A u \in Thread : u # t => Listing(u)'
      BY <1>0, <2>4, <2>6, <3>1, <3>2, StillListing
    <3> QED
      BY <3>3, <3>4
  <2>12. CASE SaveBegins(t)
    <3>1. /\ pc[t] = "save" /\ pc'[t] = "write" /\ todo' = todo
          /\ UNCHANGED history /\ facts' = facts
      BY <1>0, <2>12 DEF SaveBegins, Truncate
    <3>2. Listing(t)'
      BY <2>3, <2>7, <3>1 DEF Listing
    <3>3. \A u \in Thread : u # t => Listing(u)'
      BY <1>0, <2>4, <2>7, <3>1, StillListing
    <3> QED
      BY <3>2, <3>3
  <2>13. CASE SaveEnds(t)
    <3>1. /\ pc[t] \in {"save", "write"} /\ pc'[t] = "add"
          /\ todo'[t] = OtherFacts(t) /\ UNCHANGED history
      BY <1>0, <2>13 DEF SaveEnds
    <3>2. facts' = facts
      BY <2>13, OtherStoreSteps
    <3>3. Listing(t)'
      BY <2>1, <2>2, <2>3, <2>7, <3>1, <3>2 DEF Listing
    <3>4. \A u \in Thread : u # t => Listing(u)'
      BY <1>0, <2>4, <2>7, <3>1, <3>2, StillListing
    <3> QED
      BY <3>3, <3>4
  <2>14. CASE List(t)
    <3>1. /\ pc[t] = "add" /\ todo[t] = <<>> /\ pc'[t] = "answer"
          /\ listed'[t] = facts /\ facts' = facts /\ UNCHANGED history
      BY <1>0, <2>14 DEF List, MayList, mvars
    <3>2. Listing(t)'
      BY <2>3, <2>7, <3>1, WordsOfNone DEF Listing
    <3>3. \A u \in Thread : u # t => Listing(u)'
      BY <1>0, <2>4, <2>7, <3>1, StillListing
    <3> QED
      BY <3>2, <3>3
  <2>15. CASE Answer(t)
    <3>1. /\ pc'[t] = "idle" /\ due'[t] = {} /\ gone'[t] = {} /\ facts' = facts
          /\ \A u \in Thread : u # t => due'[u] = due[u] /\ gone'[u] = gone[u]
      BY <1>0, <2>15 DEF Answer, mvars
    <3>2. Listing(t)'
      BY <3>1 DEF Listing
    <3>3. \A u \in Thread : u # t => Listing(u)'
      BY <1>0, <2>4, <3>1, StillListing
    <3> QED
      BY <3>2, <3>3
  <2> QED
    BY <1>5, <2>8, <2>9, <2>10, <2>11, <2>12, <2>13, <2>14, <2>15 DEF Handle
<1> QED
  BY <1>1, <1>2, <1>3, <1>4, <1>5 DEF Next

-----------------------------------------------------------------------------
THEOREM ServerInvariant == Spec => []IInv
<1>1. Init => IInv
  BY InitIInv
<1>2. IInv /\ [Next]_vars => IInv'
  <2> SUFFICES ASSUME IInv, [Next]_vars PROVE IInv'
    OBVIOUS
  <2>1. TypeOK'
    BY TypeStep
  <2>2. StaysTidy' /\ Tidy(file.facts)' /\ FileInStep'
    BY StoreStep
  <2>3. Alone' /\ \A u \in Thread : Holds(u)' /\ HasFact(u)'
    BY LockStep
  <2>4. \A u \in Thread : Listing(u)'
    BY ListStep
  <2> QED
    BY <2>1, <2>2, <2>3, <2>4 DEF IInv
<1> QED
  BY <1>1, <1>2, PTL DEF Spec

\* Every variable of the server keeps to its values.
THEOREM ServerTypes == Spec => []TypeOK
<1>1. IInv => TypeOK
  BY DEF IInv
<1> QED
  BY <1>1, ServerInvariant, PTL

\* No fact is stored twice up to the case of ASCII letters, none is blank or
\* padded, if those of the first file were not
\* (MemoryStore.cpp:118-135).
THEOREM StoreStaysTidy == Spec => []StaysTidy
<1>1. IInv => StaysTidy
  BY DEF IInv
<1> QED
  BY <1>1, ServerInvariant, PTL

\* Between saves the file holds the list, unless the last save failed, across
\* any crash (MemoryStore.cpp:60-111).
THEOREM FileStaysInStep == Spec => []FileInStep
<1>1. IInv => FileInStep
  BY DEF IInv
<1> QED
  BY <1>1, ServerInvariant, PTL

\* Every handler's list shows the handler's own change, however many threads
\* change the store (ChatServer.cpp:88-110, 138-143).
THEOREM HandlersListTheirChanges == Spec => []OwnChangesListed
<1>1. IInv => OwnChangesListed
  BY DEF IInv, Listing, OwnChangesListed
<1> QED
  BY <1>1, ServerInvariant, PTL

\* The mutex is held by the thread whose change is being saved, and by nobody
\* when none is (MemoryStore.cpp:86-111).
THEOREM MutexIsForSaving == Spec => []HeldForSave
<1>1. IInv => HeldForSave
  BY DEF IInv, Holds, HeldForSave
<1> QED
  BY <1>1, ServerInvariant, PTL

-----------------------------------------------------------------------------
\* Dealing with a fact leaves one less.
LEMMA OneFactLess ==
  ASSUME NEW s \in Seq(Text), s # <<>>
  PROVE  Len(Tail(s)) < Len(s)
<1>1. Len(Tail(s)) = Len(s) - 1 /\ Len(s) \in Nat
  OBVIOUS
<1> QED
  BY <1>1

\* A step of a handler brings it nearer to its answer.
LEMMA HandleNearer ==
  ASSUME IInv, NEW t \in Thread, Handle(t)
  PROVE  pc[t] # "idle" /\ Nearer(t)
<1>0. /\ pc \in [Thread -> {"idle", "add", "remove", "save", "write", "answer"}]
      /\ todo \in [Thread -> Seq(Text)] /\ HasFact(t)
  BY DEF IInv, TypeOK
<1>1. todo[t] \in Seq(Text)
  BY <1>0
<1>2. CASE AddNew(t) \/ RemoveKnown(t) \/ SaveBegins(t) \/ List(t) \/ Answer(t)
  <2>1. /\ todo' = todo
        /\ \/ pc[t] \in {"add", "remove"} /\ pc'[t] = "save"
           \/ pc[t] = "save" /\ pc'[t] = "write"
           \/ pc[t] = "add" /\ pc'[t] = "answer"
           \/ pc[t] = "answer" /\ pc'[t] = "idle"
    BY <1>0, <1>2 DEF AddNew, RemoveKnown, SaveBegins, List, MayList, Answer
  <2>2. StageLeft(pc'[t]) < StageLeft(pc[t])
    BY <2>1 DEF StageLeft
  <2> QED
    BY <2>1, <2>2 DEF Nearer
<1>3. CASE AddKnown(t) \/ RemoveUnknown(t) \/ SaveEnds(t)
  <2>1. todo[t] # <<>> /\ todo'[t] = Tail(todo[t]) /\ pc[t] # "idle"
    BY <1>0, <1>3 DEF AddKnown, RemoveUnknown, SaveEnds, OtherFacts, HasFact
  <2> QED
    BY <1>1, <2>1, OneFactLess DEF Nearer
<1> QED
  BY <1>2, <1>3 DEF Handle

\* No handler goes back, and all steps but requests, crashes and restarts
\* bring one forward: the part of Answered that needs no fairness
\* (ChatServer.cpp:78-151).
THEOREM EveryHandlerAdvances == Spec => HandlersAdvance
<1> DEFINE Rests(t) == pc'[t] = pc[t] /\ todo'[t] = todo[t]
           Step == /\ \A t \in Thread : pc[t] # "idle" => Nearer(t) \/ Rests(t)
                   /\ up /\ requests' = requests =>
                        ~up' \/ \E t \in Thread : pc[t] # "idle" /\ Nearer(t)
<1>1. IInv /\ [Next]_vars => [Step]_vars
  <2> SUFFICES ASSUME IInv, Next
               PROVE  Step
    OBVIOUS
  <2>1. CASE Crash
    <3>1. ASSUME NEW t \in Thread, pc[t] # "idle"
          PROVE  Nearer(t)
      <4>1. /\ pc[t] \in {"add", "remove", "save", "write", "answer"}
            /\ todo[t] \in Seq(Text)
        BY <3>1 DEF IInv, TypeOK
      <4>2. pc'[t] = "idle" /\ todo'[t] = <<>>
        BY <2>1 DEF Crash
      <4>3. Len(todo[t]) \in Nat /\ Len(todo'[t]) = 0
        BY <4>1, <4>2
      <4>4. StageLeft(pc'[t]) < StageLeft(pc[t])
        BY <4>1, <4>2 DEF StageLeft
      <4> QED
        BY <4>3, <4>4 DEF Nearer
    <3>2. ~up'
      BY <2>1 DEF Crash
    <3> QED
      BY <3>1, <3>2
  <2>2. CASE Restart
    BY <2>2 DEF Restart, handler
  <2>3. ASSUME NEW u \in Thread, Arrive(u)
        PROVE  Step
    <3>1. pc[u] = "idle" /\ requests' = requests + 1
      BY <2>3 DEF Arrive, GetMemory, PostMemory, DeleteMemory, PostChat,
         BadRequest, Begin
    <3>2. requests' # requests
      BY <3>1 DEF IInv, TypeOK
    <3> QED
      BY <2>3, <3>1, <3>2, OthersStay
  <2>4. ASSUME NEW u \in Thread, Handle(u)
        PROVE  Step
    BY <2>4, HandleNearer, OthersStay
  <2> QED
    BY <2>1, <2>2, <2>3, <2>4 DEF Next
<1> QED
  BY <1>1, ServerInvariant, PTL DEF Spec, HandlersAdvance

-----------------------------------------------------------------------------
LEMMA WordsAreWords ==
  ASSUME NEW s \in Seq(Text)
  PROVE  WordsOf(s) \subseteq Word
<1>1. \A i \in 1..Len(s) : s[i] \in Text
  BY ElementOfSeq
<1>2. \A e \in Text : e.word \in Word
  BY DEF Text
<1> QED
  BY <1>1, <1>2 DEF WordsOf

\* A step that leaves the words and the saving alone is a stutter.
LEMMA MemoryStep ==
  ASSUME IInv, [Next]_vars
  PROVE  [Abstract!Next]_(Abstract!fvars)
<1> USE DEF Abstract!Next, Abstract!fvars, Abstract!Learn, Abstract!Unlearn,
            Abstract!Discard, Abstract!Save, Abstract!Relapse
<1>0. /\ facts \in Seq(Text) /\ unsaved \in BOOLEAN
      /\ \A t \in Thread : t # NoThread
  BY StoreAssumption DEF IInv, TypeOK, MTypeOK
<1>1. ASSUME UNCHANGED mvars
      PROVE  [Abstract!Next]_(Abstract!fvars)
  BY <1>1 DEF mvars
<1>2. CASE UNCHANGED vars
  BY <1>1, <1>2 DEF vars
<1>3. CASE Crash
  <2>1. /\ facts' = facts /\ file' = file /\ lock' = NoThread
        /\ unsaved' = (unsaved \/ lock # NoThread)
    BY <1>3 DEF Crash, Die
  <2>2. (lock' = NoThread /\ ~unsaved') = (lock = NoThread /\ ~unsaved)
    BY <2>1, Zenon
  <2> QED
    BY <2>1, <2>2
<1>4. CASE Restart
  <2>1. /\ facts' = file.facts /\ unsaved' = (file.state = "torn")
        /\ lock' = lock /\ file' = file
    BY <1>4 DEF Restart, Load
  <2>2. CASE lock = NoThread /\ ~unsaved
    <3>1. file.state # "torn" /\ file.facts = facts
      BY <2>2 DEF IInv, FileInStep
    <3>2. /\ facts' = facts /\ file' = file
          /\ (lock' = NoThread /\ ~unsaved') = (lock = NoThread /\ ~unsaved)
      BY <2>1, <2>2, <3>1
    <3> QED
      BY <3>2
  <2>3. CASE ~(lock = NoThread /\ ~unsaved)
    <3>1. (lock' = NoThread /\ ~unsaved') \in BOOLEAN
      BY Zenon
    <3> QED
      BY <2>1, <2>3, <3>1
  <2> QED
    BY <2>2, <2>3
<1>5. ASSUME NEW t \in Thread, Arrive(t) \/ Handle(t)
      PROVE  [Abstract!Next]_(Abstract!fvars)
  <2> DEFINE w == NextFact(t).word
  <2>1. CASE AddNew(t)
    <3>1. /\ WordsOf(facts') = WordsOf(facts) \cup {w} /\ w \in Word
          /\ w \notin WordsOf(facts) /\ lock' # NoThread /\ file' = file
      BY <1>0, <2>1, AddNewWords
    <3> QED
      BY <3>1
  <2>2. CASE AddKnown(t)
    BY <1>1, <2>2, AddKnownWords
  <2>3. CASE RemoveKnown(t)
    <3>1. /\ WordsOf(facts') = WordsOf(facts) \ {w} /\ w \in Word
          /\ w \in WordsOf(facts) /\ lock' # NoThread /\ file' = file
      BY <1>0, <2>3, RemoveKnownWords
    <3> QED
      BY <3>1
  <2>4. CASE RemoveUnknown(t)
    BY <1>1, <2>4, RemoveUnknownWords
  <2>5. CASE SaveBegins(t)
    <3>1. /\ lock = t /\ lock' = lock /\ facts' = facts
          /\ unsaved' = unsaved /\ file' = Torn
      BY <2>5, OtherStoreSteps
    <3>2. WordsOf(file'.facts) = {}
      BY <3>1 DEF Torn, WordsOf
    <3> QED
      BY <1>0, <3>1, <3>2
  <2>6. CASE SaveEnds(t)
    <3>1. lock = t /\ lock' = NoThread /\ facts' = facts
      BY <2>6, OtherStoreSteps
    <3>2. CASE unsaved' = TRUE /\ file' = file
      BY <1>0, <3>1, <3>2
    <3>3. CASE unsaved' = FALSE /\ file' = Whole(facts)
      <4>1. WordsOf(file'.facts) = WordsOf(facts)
        BY <3>3 DEF Whole
      <4> QED
        BY <1>0, <3>1, <3>3, <4>1
    <3> QED
      BY <2>6, <3>2, <3>3, OtherStoreSteps
  <2>7. CASE Arrive(t) \/ List(t) \/ Answer(t)
    BY <1>1, <2>7, OtherStoreSteps
  <2> QED
    BY <1>5, <2>1, <2>2, <2>3, <2>4, <2>5, <2>6, <2>7 DEF Handle
<1> QED
  BY <1>2, <1>3, <1>4, <1>5 DEF Next

\* The server keeps the promise of a store of facts: one comes or goes at a
\* time, and a restart brings back what was saved last, or nothing when it is a
\* save that was broken off (MemoryStore.cpp:60-154, ChatServer.cpp:69-144).
THEOREM ServerImplementsMemory == Spec => ImplementsMemory
<1>1. Init => Abstract!Init
  <2> SUFFICES ASSUME Init PROVE Abstract!Init
    OBVIOUS
  <2>1. facts \in Seq(Text)
    BY InitIInv DEF IInv, TypeOK, MTypeOK
  <2>2. (lock = NoThread /\ ~unsaved) \in BOOLEAN
    BY Zenon
  <2>3. facts = file.facts
    BY DEF Init, MInit
  <2> QED
    BY <2>1, <2>2, <2>3, WordsAreWords DEF Abstract!Init
<1>2. IInv /\ [Next]_vars => [Abstract!Next]_(Abstract!fvars)
  BY MemoryStep
<1> QED
  BY <1>1, <1>2, ServerInvariant, PTL DEF Spec, ImplementsMemory, Abstract!Spec
==============================================================================
