---------------------------- MODULE ResumeToken ----------------------------
(***************************************************************************)
(* The token a paused run hands out, resume_token.py: an offset and an     *)
(* engine state in JSON and URL-safe base64, which a transport may strip   *)
(* of its padding or cut short.  Of a text only the length counts: an      *)
(* engine state is named by the length of its JSON, and a token is what it *)
(* was made from with its letters and its padding counted.                 *)
(***************************************************************************)
EXTENDS Integers

Version == 1
EmptyState == 2       \* the length of {}
None == -1            \* no state given
Invalid == [refused |-> TRUE]

(* The least d with n < 10^d: how many digits n is printed with. *)
Digits(n) == CHOOSE d \in 1 .. n + 1 : n < 10 ^ d /\ \A c \in 1 .. d - 1 : n >= 10 ^ c

(* The text is {"offset":n,"state":s,"v":1}. *)
Bytes(offset, state) == 26 + Digits(offset) + state

(* base64: four letters for three bytes, the last group padded. *)
Base64(payload, bytes) ==
    [payload |-> payload, bytes |-> bytes,
     letters |-> (4 * bytes + 2) \div 3, padding |-> (3 - (bytes % 3)) % 3]

EncodeToken(offset, state) ==
    LET given == IF state = None THEN EmptyState ELSE state
    IN  IF offset < 0 THEN Invalid   \* ValueError
        ELSE Base64([v |-> Version, offset |-> offset, state |-> given],
                    Bytes(offset, given))

(* On the way: padding goes first, then letters. *)
Shortened(token, n) ==
    [token EXCEPT !.padding = IF n < token.padding THEN token.padding - n ELSE 0,
                  !.letters = IF n < token.padding THEN token.letters
                              ELSE token.letters - (n - token.padding)]

(* A faulty variant of Restored: what comes is taken to be padded.         *)
RestoredNever(token) == token

Restored(token) ==
    [token EXCEPT !.padding = @ + ((-1 * (token.letters + token.padding)) % 4)]

(* urlsafe_b64decode takes more padding than it needs, but never less; a   *)
(* single letter beyond a group of four is nothing.                        *)
Decodable(token) ==
    LET beyond == token.letters % 4
    IN  /\ beyond # 1
        /\ beyond > 1 => token.padding >= 4 - beyond

(* What is cut short has lost its closing brace and is not JSON. *)
Complete(token) == (3 * token.letters) \div 4 = token.bytes

DecodeToken(token) ==
    IF token.letters + token.padding = 0 THEN Invalid
    ELSE LET padded == Restored(token)
             payload == token.payload
         IN  IF ~Decodable(padded) \/ ~Complete(padded) THEN Invalid
             ELSE IF payload.v # Version \/ payload.offset < 0 THEN Invalid
             ELSE [offset |-> payload.offset, state |-> payload.state]

-----------------------------------------------------------------------------
(* A token for `offset` comes back as the position it was made for,        *)
(* whether or not the transport has kept its padding; one that has lost    *)
(* more, or was made for another version or a negative offset, is refused  *)
(* and never taken for another position.                                   *)
ReadsBack(offset, state) ==
    LET token == EncodeToken(offset, state)
        given == IF state = None THEN EmptyState ELSE state
        Foreign(payload) == Base64(payload, Bytes(offset, given))
    IN  /\ \A n \in 0 .. token.letters + token.padding :
              DecodeToken(Shortened(token, n)) =
                  IF n <= token.padding THEN [offset |-> offset, state |-> given]
                  ELSE Invalid
        /\ EncodeToken(-1 - offset, state) = Invalid
        /\ DecodeToken(Foreign([v |-> Version + 1, offset |-> offset,
                                state |-> given])) = Invalid
        /\ DecodeToken(Foreign([v |-> Version, offset |-> -1 - offset,
                                state |-> given])) = Invalid
=============================================================================
