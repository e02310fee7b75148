------------------------ MODULE MCExternalInterrupts ------------------------
(* What the user types and what the guest does meanwhile.                  *)
EXTENDS ExternalInterrupts

SessionOf(keys, echo, prints_, requests_) ==
  [keys |-> keys, echo |-> echo, prints |-> prints_, requests |-> requests_]

\* A reader of l, delete, arrow up, backspace, l, s; an echoing reader that
\* prints; a guest that only uses the disk; and all of it together, up to
\* Ctrl-a.
AllSessions ==
  {SessionOf(<<108, 330, 259, 263, 108, 115>>, FALSE, 0, 0),
   SessionOf(<<108, 115, 330>>, TRUE, 1, 0),
   SessionOf(<<>>, FALSE, 2, 4),
   SessionOf(<<108, 330, 1>>, TRUE, 1, 2)}

\* Two keys and one disk request.
TypingDuringRequest == {SessionOf(<<108, 115>>, FALSE, 0, 1)}
=============================================================================
