--------------------------- MODULE ReaderContract ---------------------------
(***************************************************************************)
(* What the commands that read mail promise the one who reads it: mail is  *)
(* marked READ only after its body was shown, nothing that was marked is   *)
(* taken back, and mail leaves the unread only by being read or by being   *)
(* set aside (docstring of fn_read in src/tabus/cli.py).                   *)
(***************************************************************************)
CONSTANT Messages

VARIABLE mail    \* what each message is to its reader

Kinds == {"none", "unseen", "seen", "read", "lost"}

Init == mail = [m \in Messages |-> "none"]

Becomes(m, from, to) == mail[m] = from /\ mail'[m] = to

Arrives(m)     == Becomes(m, "none", "unseen")
IsShown(m)     == Becomes(m, "unseen", "seen")
IsMarked(m)    == Becomes(m, "seen", "read")
IsSetAside(m)  == Becomes(m, "unseen", "lost") \/ Becomes(m, "seen", "lost")
Stays(m)       == mail'[m] = mail[m]

Next == \A m \in Messages :
          Arrives(m) \/ IsShown(m) \/ IsMarked(m) \/ IsSetAside(m) \/ Stays(m)

Spec == Init /\ [][Next]_mail
=============================================================================
