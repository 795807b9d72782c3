------------------------------ MODULE Secrets ------------------------------
(***************************************************************************)
(* The way of a passphrase (config.py:47-80, client.py:119-127,            *)
(* cli.py:175-191): from the configured value or the file it names, through*)
(* the one line terminator the client strips and the newline it adds, to   *)
(* the capped read of the receiver and the stdin of `zfs load-key`.        *)
(* A text is a sequence of bytes, of which only CR and LF matter.          *)
(***************************************************************************)
EXTENDS Integers, Sequences, SequencesExt

CONSTANTS
  Limit,        \* MAX_PASSPHRASE_BYTES
  MaxLength     \* the longest passphrase (bound)

VARIABLES
  typed,        \* the passphrase the user means
  ending,       \* what the editor has put after it in the file
  mode, value,  \* the `secrets` mode; what the configured value is
  stage, text

vars == <<typed, ending, mode, value, stage, text>>
given == <<typed, ending, mode, value>>

Byte == {"x", "CR", "LF"}
LF   == <<"LF">>
CR   == <<"CR">>
CRLF == CR \o LF
Text == UNION {[1..n -> Byte] : n \in 0..MaxLength}
Modes  == {"auto", "files", "inline"}
Values == {"literal", "file", "undecodable_file", "directory", "tilde"}

TypeOK ==
  /\ typed \in Text /\ ending \in {<<>>, LF, CR, CRLF}
  /\ mode \in Modes /\ value \in Values
  /\ stage \in {"configured", "resolved", "sent", "accepted", "unreadable", "unresolvable", "refused"}
  /\ text \in Seq(Byte)

(* A file holds the passphrase and its ending; a literal is the passphrase.*)
Init ==
  /\ typed \in Text /\ mode \in Modes /\ value \in Values
  /\ ending \in (IF value = "file" /\ mode # "inline" THEN {<<>>, LF, CR, CRLF} ELSE {<<>>})
  /\ stage = "configured"
  /\ text = typed \o ending

-----------------------------------------------------------------------------
Without(s, ends) == IF IsSuffix(ends, s) THEN SubSeq(s, 1, Len(s) - Len(ends)) ELSE s

(* A variant that looks for the line feed first.                           *)
StrippedLineFeedFirst(s) ==
  CASE IsSuffix(LF, s) -> Without(s, LF) [] OTHER -> Without(s, CR)

(* _read_secret_file: exactly one terminator, the longest that fits.       *)
Stripped(s) ==
  CASE IsSuffix(CRLF, s) -> Without(s, CRLF)
    [] ~IsSuffix(CRLF, s) /\ IsSuffix(LF, s) -> Without(s, LF)
    [] OTHER -> Without(s, CR)

(* _resolve_secret.                                                        *)
IsRead == mode # "inline" /\ value \in {"file", "undecodable_file"}
Fails  == value = "undecodable_file" \/ (mode = "files" /\ value # "file")

Resolve ==
  /\ stage = "configured"
  /\ \/ mode # "inline" /\ value = "tilde" /\ stage' = "unresolvable" /\ UNCHANGED text
     \/ mode # "inline" /\ value # "tilde" /\ Fails /\ stage' = "unreadable" /\ UNCHANGED text
     \/ /\ mode = "inline" \/ (value # "tilde" /\ ~Fails)
        /\ stage' = "resolved"
        /\ text' = IF IsRead THEN Stripped(text) ELSE text
  /\ UNCHANGED given

Send ==
  /\ stage = "resolved"
  /\ stage' = "sent"
  /\ text' = text \o LF
  /\ UNCHANGED given

Read(s) == SubSeq(s, 1, IF Len(s) < Limit + 2 THEN Len(s) ELSE Limit + 2)

(* A variant that counts the newline.                                      *)
TooLongWithNewline(s) == Len(Read(s)) > Limit

TooLong(s) == Len(Without(Read(s), LF)) > Limit

(* _read_passphrase; what is accepted goes to load-key as it is.           *)
Receive ==
  /\ stage = "sent"
  /\ IF TooLong(text)
     THEN stage' = "refused" /\ UNCHANGED text
     ELSE stage' = "accepted" /\ text' = Read(text)
  /\ UNCHANGED given

Next == Resolve \/ Send \/ Receive

Spec == Init /\ [][Next]_vars

-----------------------------------------------------------------------------
(* What a file holds is in doubt if the passphrase ends in CR or LF and    *)
(* was saved without a terminator, or ends in CR and was saved with LF.    *)
Clear ==
  value = "file" /\ mode # "inline" =>
    /\ IsSuffix(CR, typed) => ending \notin {<<>>, LF}
    /\ IsSuffix(LF, typed) => ending # <<>>

(* The passphrase reaches load-key as it was typed, byte for byte and with *)
(* exactly one newline after it, whatever the file ends in; one that ends  *)
(* in a newline survives (config.py:54-58, client.py:127, cli.py:178-181). *)
RoundTrip ==
  stage = "accepted" /\ Clear => text = typed \o LF

(* A passphrase is refused exactly if it is longer than the limit, its     *)
(* newline not counted: none is cut short (cli.py:178-186).                *)
CapExact ==
  /\ stage = "refused" => Len(text) - 1 > Limit
  /\ stage = "accepted" => Len(text) - 1 <= Limit /\ (Clear => Len(typed) <= Limit)
=============================================================================
