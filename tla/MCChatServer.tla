----------------------------- MODULE MCChatServer -----------------------------
EXTENDS ChatServer

CONSTANTS t1, t2, ann, dots

MCThread == {t1, t2}
MCName == {ann}
MCSaidWord == <<"user name", ann>>
MCWord == {<<p, ann>> : p \in {"user name", "assistant name", "age"}}
            \cup {dots, Blank}

MCText(w, u, b) == [word |-> w, upper |-> u, padded |-> b]

MCKept == {<<>>, <<MCText(dots, FALSE, FALSE)>>}
MCTyped ==
  {MCText(MCSaidWord, FALSE, FALSE), MCText(MCSaidWord, TRUE, TRUE),
   MCText(dots, TRUE, FALSE), MCText(Blank, FALSE, TRUE)}
MCSaid ==
  {<<[name |-> ann, upper |-> u], NoMatch, a>> :
      u \in {FALSE}, a \in {NoMatch, [name |-> ann, upper |-> FALSE]}}
==============================================================================
