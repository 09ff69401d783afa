---------------------------- MODULE TacContract ----------------------------
(***************************************************************************)
(* What the tacs are to those who name them, whatever overlaps: each tac   *)
(* is created once, renamed in one moment, known for good by every name it *)
(* has had, and converted without losing a letter.                         *)
(***************************************************************************)
CONSTANTS Uuids, Names, None, Foldings

VARIABLES
  strings,  \* the tacs that a string identifies
  name,     \* the name of a UUID, or None
  key,      \* its name as the interpreter folded it that wrote it
  known,    \* every name of a UUID that its name and its history tell
  legacy,   \* the string it had before, or None
  refs,     \* the ids that mail, members and links carry
  fold      \* how the running interpreter folds a name

vars == <<strings, name, key, known, legacy, refs, fold>>

Init ==
  /\ strings = {} /\ refs = {}
  /\ name   = [i \in Uuids |-> None]
  /\ key    = [i \in Uuids |-> None]
  /\ known  = [i \in Uuids |-> {}]
  /\ legacy = [i \in Uuids |-> None]
  /\ fold \in Foldings

Exists(i) == name[i] # None

\* No tac but those of a set has the name, for this interpreter.
Free(n, but) == \A i \in Uuids \ but : Exists(i) => key[i] # fold[n]

\* A tac is given a name that nobody else has, and keeps all it was known by.
Gets(i, n) ==
  /\ strings = {}
  /\ Free(n, {i})
  /\ name' = [name EXCEPT ![i] = n]
  /\ key' = [key EXCEPT ![i] = fold[n]]
  /\ known' = [known EXCEPT ![i] = @ \cup {n}]
  /\ UNCHANGED <<strings, legacy, refs, fold>>

Create(i, n) == ~Exists(i) /\ Gets(i, n)
Rename(i, n) == Exists(i) /\ Gets(i, n)

\* Before the conversion, or after a rollback.
CreateString(s) ==
  /\ strings' = strings \cup {s}
  /\ UNCHANGED <<name, key, known, legacy, refs, fold>>

Refer(i) ==
  /\ i \in strings \/ (i \in Uuids /\ Exists(i))
  /\ refs' = refs \cup {i}
  /\ UNCHANGED <<strings, name, key, known, legacy, fold>>

Refold ==
  /\ fold' \in Foldings
  /\ UNCHANGED <<strings, name, key, known, legacy, refs>>

\* Each string becomes a new tac, as into gives it, under the name c gives it: a name
\* of its own.  The new tac remembers the string, which no other does, and takes over
\* its references.
Convert(c, into) ==
  LET fresh  == {into[s] : s \in strings}
      Was(i) == CHOOSE s \in strings : into[s] = i IN
  /\ \A r, s \in strings : into[r] = into[s] => r = s
  /\ \A r, s \in strings : fold[c[r]] = fold[c[s]] => r = s
  /\ \A s \in strings : /\ ~Exists(into[s])
                        /\ Free(c[s], {})
                        /\ \A i \in Uuids : legacy[i] # s
  /\ strings' = {}
  /\ name'   = [i \in Uuids |-> IF i \in fresh THEN c[Was(i)] ELSE name[i]]
  /\ key'    = [i \in Uuids |-> IF i \in fresh THEN fold[c[Was(i)]] ELSE key[i]]
  /\ known'  = [i \in Uuids |-> IF i \in fresh THEN {c[Was(i)]} ELSE known[i]]
  /\ legacy' = [i \in Uuids |-> IF i \in fresh THEN Was(i) ELSE legacy[i]]
  /\ refs'   = (refs \ strings) \cup {into[s] : s \in refs \cap strings}
  /\ UNCHANGED fold

Next ==
  \/ \E i \in Uuids, n \in Names : Create(i, n) \/ Rename(i, n)
  \/ \E s \in Names : CreateString(s)
  \/ \E i \in Uuids \cup Names : Refer(i)
  \/ Refold
  \/ \E c \in [strings -> Names], into \in [strings -> Uuids] : Convert(c, into)

Spec == Init /\ [][Next]_vars
=============================================================================
