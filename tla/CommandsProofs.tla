--------------------------- MODULE CommandsProofs ---------------------------
(***************************************************************************)
(* The properties of `keygen`, of a passphrase on its way and of `doctor`  *)
(* hold for any number of pairs, failures, bytes and datasets.  Each       *)
(* argument is a description of what a command knows at each of its steps; *)
(* the parts of MCCommands share no state, and PartInv puts them together. *)
(***************************************************************************)
EXTENDS MCCommands, ServiceProofs, SequenceTheorems

(* Numbers only grow, and a run's own pair is the newest.                  *)
NewestInv ==
  /\ \A f \in Keygen!Installed \cup Keygen!Temporary : file[f] <= made
  /\ pc \in {"idle", "clear", "generate"} => key = Keygen!None
  /\ key # Keygen!None => key = made
  /\ file["public"] <= file["identity"]

(* Where a run stands: what it has generated, what it has installed, and   *)
(* what it may replace.                                                    *)
RunInv ==
  /\ pc \notin {"cleanup", "done"} => outcome = "none"
  /\ pc \in {"identity", "public", "replace_identity", "replace_public"} => key # Keygen!None
  /\ pc \in {"identity", "public", "replace_identity"} => file["tmp_identity"] = key
  /\ pc \in {"public", "replace_identity", "replace_public"} =>
       file["tmp_public"] = key /\ <<"tmp_identity", key>> \in complete
  /\ pc \in {"replace_identity", "replace_public"} => <<"tmp_public", key>> \in complete
  /\ pc = "replace_public" => file["identity"] = key
  /\ pc \in {"clear", "generate", "identity", "public", "replace_identity"} =>
       overwrite \/ (file["identity"] = Keygen!None /\ file["public"] = Keygen!None)
  /\ pc = "replace_public" => overwrite \/ file["public"] = Keygen!None

KeygenInv == Keygen!TypeOK /\ NewestInv /\ RunInv /\ Keygen!CreatedIsPair

(* What is on its way at each stage.                                       *)
SecretsInv ==
  /\ Secrets!TypeOK
  /\ stage = "configured" => text = typed \o ending
  /\ value # "file" \/ mode = "inline" => ending = <<>>
  /\ stage = "resolved" /\ Secrets!Clear => text = typed
  /\ stage \in {"sent", "refused", "accepted"} =>
       \E line \in Seq(Secrets!Byte) : text = line \o Secrets!LF /\ (Secrets!Clear => line = typed)
  /\ Secrets!CapExact

Fine(i) == mode = "inline" \/ secret[i] = "private" \/ (mode = "auto" /\ secret[i] = "missing")
Bad(i)  == mode # "inline" /\ (secret[i] = "open" \/ (mode = "files" /\ secret[i] = "missing"))

(* What is known from the checks that are done.                            *)
DoctorInv ==
  /\ Doctor!TypeOK
  /\ pc = "identity" => next = 1 /\ ok
  /\ pc \notin {"identity", "ended"} => identity \in {"none", "private"}
  /\ pc = "secrets" =>
       \/ ok /\ \A i \in Doctor!Dataset : i < next => Fine(i)
       \/ ~ok /\ \E i \in Doctor!Dataset : Bad(i)
  /\ pc \in {"ssh", "host", "select", "statuses"} => \A i \in Doctor!Dataset : Fine(i)
  /\ pc \in {"host", "select", "statuses"} => ssh
  /\ pc = "select" => ok = (resolves /\ connects)
  /\ pc = "statuses" => resolves /\ connects /\ selected # {}
  /\ pc # "ended" => exit = "none"
  /\ Doctor!CleanBill /\ Doctor!NoFalseAlarm

LEMMA KeygenBegins == Keygen!Init => KeygenInv
<1> SUFFICES ASSUME Keygen!Init PROVE KeygenInv
  OBVIOUS
<1> USE DEF Keygen!Init, Keygen!Installed, Keygen!Temporary, Keygen!None
<1>1. Keygen!TypeOK
  <2>1. faults \in 0..MaxFaults
    BY ServiceAssumption
  <2> QED
    BY <2>1 DEF Keygen!TypeOK, Keygen!Keys
<1>2. NewestInv
  BY DEF NewestInv
<1>3. RunInv /\ Keygen!CreatedIsPair
  BY DEF RunInv, Keygen!CreatedIsPair
<1> QED
  BY <1>1, <1>2, <1>3 DEF KeygenInv

LEMMA KeygenStep == KeygenInv /\ Keygen!Next => KeygenInv'
<1> SUFFICES ASSUME KeygenInv, Keygen!Next PROVE KeygenInv'
  OBVIOUS
<1> USE SizesAssumption, ServiceAssumption
    DEF KeygenInv, NewestInv, RunInv, Keygen!TypeOK, Keygen!CreatedIsPair,
        Keygen!Installed, Keygen!Temporary, Keygen!None, Keygen!Keys,
        Keygen!Continue, Keygen!Finish, Keygen!Fault
<1>1. ASSUME NEW force \in BOOLEAN, Keygen!Begin(force) PROVE KeygenInv'
  BY <1>1 DEF Keygen!Begin, Keygen!Taken
<1>2. CASE Keygen!Clear
  BY <1>2 DEF Keygen!Clear, Keygen!Unlinked
<1>3. CASE Keygen!Generate
  BY <1>3 DEF Keygen!Generate
<1>4. CASE Keygen!WriteIdentity
  BY <1>4 DEF Keygen!WriteIdentity
<1>5. CASE Keygen!WritePublic
  BY <1>5 DEF Keygen!WritePublic
<1>6. CASE Keygen!GenerateFails
  BY <1>6 DEF Keygen!GenerateFails
<1>7. CASE Keygen!Install
  BY <1>7 DEF Keygen!Install, Keygen!Replace
<1>8. CASE Keygen!Cleanup
  BY <1>8 DEF Keygen!Cleanup, Keygen!Unlinked
<1>9. CASE Keygen!Exit
  BY <1>9 DEF Keygen!Exit, Keygen!Leave
<1>10. CASE Keygen!Crash
  BY <1>10 DEF Keygen!Crash, Keygen!Leave
<1> QED
  BY <1>1, <1>2, <1>3, <1>4, <1>5, <1>6, <1>7, <1>8, <1>9, <1>10 DEF Keygen!Next

LEMMA KeygenReplaces == KeygenInv /\ Keygen!Next => Keygen!PairChangesStep
<1> SUFFICES ASSUME KeygenInv, Keygen!Next PROVE Keygen!PairChangesStep
  OBVIOUS
<1> USE DEF KeygenInv, NewestInv, RunInv, Keygen!TypeOK, Keygen!Installed, Keygen!Temporary, Keygen!None
<1>1. ASSUME NEW f \in Keygen!Installed, file'[f] # file[f], Keygen!Install
      PROVE  /\ pc \in DOMAIN Keygen!Replace
             /\ file'[f] = key /\ key # Keygen!None
             /\ <<Keygen!Origin[f], key>> \in complete
             /\ overwrite \/ file[f] = Keygen!None
  BY <1>1 DEF Keygen!Install, Keygen!Replace, Keygen!Origin
<1>2. ASSUME NEW f \in Keygen!Installed, file'[f] # file[f]
      PROVE  Keygen!Install
  BY <1>2 DEF Keygen!Next, Keygen!Begin, Keygen!Clear, Keygen!Unlinked, Keygen!Generate,
     Keygen!WriteIdentity, Keygen!WritePublic, Keygen!GenerateFails, Keygen!Cleanup,
     Keygen!Exit, Keygen!Crash, Keygen!Leave
<1> QED
  BY <1>1, <1>2 DEF Keygen!PairChangesStep

-----------------------------------------------------------------------------
USE DEF Doctor!Files, Doctor!Modes

LEMMA DoctorBegins == Doctor!Init => DoctorInv
<1> SUFFICES ASSUME Doctor!Init PROVE DoctorInv
  OBVIOUS
<1> USE DEF Doctor!Init
<1>1. Doctor!TypeOK
  <2>1. next \in 1..(N + 1)
    BY SizesAssumption
  <2> QED
    BY <2>1 DEF Doctor!TypeOK
<1> QED
  BY <1>1 DEF DoctorInv, Doctor!CleanBill, Doctor!NoFalseAlarm

(* What the secrets check makes of one dataset is what is true of it.      *)
LEMMA SecretJudged ==
  ASSUME Doctor!TypeOK, NEW i \in Doctor!Dataset, secret[i] # "tilde"
  PROVE  /\ Fine(i) \/ Bad(i)
         /\ Doctor!SecretOk(i) <=> ok /\ Fine(i)
<1>1. secret[i] \in Doctor!Files /\ mode \in Doctor!Modes
  BY DEF Doctor!TypeOK
<1> QED
  BY <1>1 DEF Fine, Bad, Doctor!SecretOk

LEMMA DoctorStep == DoctorInv /\ Doctor!Next => DoctorInv'
<1> SUFFICES ASSUME DoctorInv, Doctor!Next PROVE DoctorInv'
  OBVIOUS
<1> USE SizesAssumption
    DEF DoctorInv, Doctor!TypeOK, Doctor!CleanBill, Doctor!NoFalseAlarm, Doctor!world,
        Doctor!Goto, Doctor!End, Doctor!Dataset, Fine, Bad
<1>1. CASE Doctor!CheckIdentity
  <2> USE <1>1 DEF Doctor!CheckIdentity
  <2>1. CASE identity \in {"none", "private"}
    <3>1. pc' = "secrets" /\ exit' = exit
      BY <2>1
    <3> QED
      BY <2>1, <3>1
  <2>2. CASE identity \in {"open", "missing"}
    <3>1. pc' = "ended" /\ exit' = "1"
      BY <2>2
    <3> QED
      BY <2>2, <3>1
  <2>3. CASE identity = "tilde"
    <3>1. pc' = "ended" /\ exit' = "crashed"
      BY <2>3
    <3> QED
      BY <2>3, <3>1
  <2> QED
    BY <2>1, <2>2, <2>3
<1>2. CASE Doctor!CheckSecret
  <2> USE <1>2 DEF Doctor!CheckSecret
  <2>1. CASE secret[next] = "tilde"
    BY <2>1
  <2>2. CASE secret[next] # "tilde"
    <3>1. next \in Doctor!Dataset /\ next' = next + 1 /\ ok' = Doctor!SecretOk(next)
      BY <2>2
    <3>2. Fine(next) \/ Bad(next)
      BY <2>2, <3>1, SecretJudged
    <3>3. ok' <=> ok /\ Fine(next)
      BY <2>2, <3>1, SecretJudged
    <3>4. ok' \in BOOLEAN /\ next' \in 1..(N + 1)
      BY <3>1 DEF Doctor!SecretOk
    <3>5. \/ ok' /\ \A i \in Doctor!Dataset : i < next' => Fine(i)
          \/ ~ok' /\ \E i \in Doctor!Dataset : Bad(i)
      BY <3>1, <3>2, <3>3
    <3> QED
      BY <2>2, <3>4, <3>5
  <2> QED
    BY <2>1, <2>2
<1>3. CASE Doctor!CheckedSecrets
  BY <1>3 DEF Doctor!CheckedSecrets
<1>4. CASE Doctor!CheckSsh
  BY <1>4 DEF Doctor!CheckSsh
<1>5. CASE Doctor!CheckHost
  BY <1>5 DEF Doctor!CheckHost
<1>6. CASE Doctor!Select
  BY <1>6 DEF Doctor!Select
<1>7. ASSUME NEW i \in Doctor!Dataset, Doctor!Answered(i) PROVE DoctorInv'
  BY <1>7 DEF Doctor!Answered
<1>8. CASE Doctor!Gathered
  BY <1>8 DEF Doctor!Gathered, Doctor!Healthy, Doctor!Results, Doctor!Words
<1> QED
  BY <1>1, <1>2, <1>3, <1>4, <1>5, <1>6, <1>7, <1>8 DEF Doctor!Next

-----------------------------------------------------------------------------
Bytes == Seq(Secrets!Byte)

USE DEF Bytes, Secrets!Byte, Secrets!LF, Secrets!CR

LEMMA TextIsBytes == Secrets!Text \subseteq Bytes
BY SizesAssumption DEF Secrets!Text

LEMMA SameBeginning ==
  ASSUME NEW s \in Bytes, NEW t \in Bytes, NEW n \in Nat, n <= Len(s), n <= Len(t)
  PROVE  SubSeq(s, 1, n) = SubSeq(t, 1, n) <=> \A i \in 1..n : s[i] = t[i]
<1>1. ASSUME NEW u \in Bytes, n <= Len(u)
      PROVE  /\ SubSeq(u, 1, n) \in Bytes /\ Len(SubSeq(u, 1, n)) = n
             /\ \A i \in 1..n : SubSeq(u, 1, n)[i] = u[i]
  <2>1. \A i \in 1..n : u[i] \in Secrets!Byte
    BY <1>1
  <2> QED
    BY <2>1, SubSeqProperties
<1>2. ASSUME \A i \in 1..n : s[i] = t[i]
      PROVE  SubSeq(s, 1, n) = SubSeq(t, 1, n)
  BY <1>1, <1>2, SeqEqual
<1> QED
  BY <1>1, <1>2

LEMMA BytesHaveLength == \A s \in Bytes : Len(s) \in Nat
BY DEF Bytes

LEMMA Reversed ==
  ASSUME NEW s \in Bytes
  PROVE  /\ Secrets!Reverse(s) \in Bytes /\ Len(Secrets!Reverse(s)) = Len(s)
         /\ \A i \in 1..Len(s) : Secrets!Reverse(s)[i] = s[Len(s) - i + 1]
BY DEF Secrets!Reverse

LEMMA EndsIn ==
  ASSUME NEW s \in Bytes, NEW e \in Bytes
  PROVE  Secrets!IsSuffix(e, s) <=>
           /\ Len(e) <= Len(s)
           /\ \A i \in 1..Len(e) : e[Len(e) - i + 1] = s[Len(s) - i + 1]
<1> HIDE DEF Bytes, Secrets!Byte
<1> Len(s) \in Nat /\ Len(e) \in Nat
  BY BytesHaveLength
<1>1. ASSUME Len(e) <= Len(s)
      PROVE  SubSeq(Secrets!Reverse(e), 1, Len(e)) = SubSeq(Secrets!Reverse(s), 1, Len(e))
               <=> \A i \in 1..Len(e) : e[Len(e) - i + 1] = s[Len(s) - i + 1]
  <2>1. /\ Secrets!Reverse(e) \in Bytes /\ Len(Secrets!Reverse(e)) = Len(e)
        /\ Secrets!Reverse(s) \in Bytes /\ Len(Secrets!Reverse(s)) = Len(s)
        /\ \A i \in 1..Len(e) : Secrets!Reverse(e)[i] = e[Len(e) - i + 1]
        /\ \A i \in 1..Len(s) : Secrets!Reverse(s)[i] = s[Len(s) - i + 1]
    BY Reversed
  <2>2. 1..Len(e) \subseteq 1..Len(s)
    BY <1>1
  <2>3. SubSeq(Secrets!Reverse(e), 1, Len(e)) = SubSeq(Secrets!Reverse(s), 1, Len(e))
          <=> \A i \in 1..Len(e) : Secrets!Reverse(e)[i] = Secrets!Reverse(s)[i]
    BY <1>1, <2>1, SameBeginning
  <2>4. \A i \in 1..Len(e) : Secrets!Reverse(s)[i] = s[Len(s) - i + 1]
    BY <2>1, <2>2, Zenon
  <2>5. ASSUME NEW i \in 1..Len(e)
        PROVE  Secrets!Reverse(e)[i] = Secrets!Reverse(s)[i]
                 <=> e[Len(e) - i + 1] = s[Len(s) - i + 1]
    <3>1. Secrets!Reverse(e)[i] = e[Len(e) - i + 1] /\ Secrets!Reverse(s)[i] = s[Len(s) - i + 1]
      BY <2>1, <2>4, Zenon
    <3> QED
      BY <3>1, Zenon
  <2> QED
    BY <2>3, <2>5, Zenon
<1> QED
  BY <1>1, Reversed DEF Secrets!IsSuffix, Secrets!IsPrefix

LEMMA Joined ==
  ASSUME NEW s \in Bytes, NEW t \in Bytes
  PROVE  /\ s \o t \in Bytes /\ Len(s \o t) = Len(s) + Len(t)
         /\ \A i \in 1..(Len(s) + Len(t)) : (s \o t)[i] = IF i <= Len(s) THEN s[i] ELSE t[i - Len(s)]
         /\ t = <<>> => s \o t = s
BY ConcatProperties, ConcatEmptySeq

LEMMA Begun ==
  ASSUME NEW s \in Bytes, NEW n \in Int, n <= Len(s)
  PROVE  /\ SubSeq(s, 1, n) \in Bytes
         /\ Len(SubSeq(s, 1, n)) = IF 1 <= n THEN n ELSE 0
         /\ \A i \in 1..n : SubSeq(s, 1, n)[i] = s[i]
         /\ n = Len(s) => SubSeq(s, 1, n) = s
<1>1. \A i \in 1..n : s[i] \in Secrets!Byte
  OBVIOUS
<1> QED
  BY <1>1, SubSeqProperties, SubSeqFull

LEMMA Beginning ==
  ASSUME NEW s \in Bytes, NEW n \in Nat, n <= Len(s)
  PROVE  /\ SubSeq(s, 1, n) \in Bytes
         /\ Len(SubSeq(s, 1, n)) = n
         /\ \A i \in 1..n : SubSeq(s, 1, n)[i] = s[i]
<1>1. n \in Int /\ (IF 1 <= n THEN n ELSE 0) = n
  OBVIOUS
<1> QED
  BY <1>1, Begun, Zenon

LEMMA EndingBytes ==
  /\ Secrets!LF \in Bytes /\ Len(Secrets!LF) = 1 /\ Secrets!LF[1] = "LF"
  /\ Secrets!CR \in Bytes /\ Len(Secrets!CR) = 1 /\ Secrets!CR[1] = "CR"
  /\ Secrets!CRLF \in Bytes /\ Len(Secrets!CRLF) = 2
  /\ Secrets!CRLF[1] = "CR" /\ Secrets!CRLF[2] = "LF"
  /\ <<>> \in Bytes /\ Len(<<>>) = 0
BY DEF Secrets!CRLF

HIDE DEF Bytes, Secrets!Byte, Secrets!LF, Secrets!CR

(* Each line terminator in terms of the last bytes.                        *)
LEMMA Terminators ==
  ASSUME NEW s \in Bytes
  PROVE  /\ Secrets!IsSuffix(Secrets!LF, s) <=> Len(s) > 0 /\ s[Len(s)] = "LF"
         /\ Secrets!IsSuffix(Secrets!CR, s) <=> Len(s) > 0 /\ s[Len(s)] = "CR"
         /\ Secrets!IsSuffix(Secrets!CRLF, s) <=>
              Len(s) > 1 /\ s[Len(s)] = "LF" /\ s[Len(s) - 1] = "CR"
<1> Len(s) \in Nat
  BY BytesHaveLength
<1>1. ASSUME NEW e \in Bytes, Len(e) = 1
      PROVE  Secrets!IsSuffix(e, s) <=> Len(s) > 0 /\ s[Len(s)] = e[1]
  <2>1. Secrets!IsSuffix(e, s) <=>
          Len(e) <= Len(s) /\ \A i \in 1..Len(e) : e[Len(e) - i + 1] = s[Len(s) - i + 1]
    BY EndsIn
  <2>2. /\ \A i : i \in 1..Len(e) <=> i = 1
        /\ Len(e) - 1 + 1 = 1 /\ Len(s) - 1 + 1 = Len(s)
        /\ Len(e) <= Len(s) <=> Len(s) > 0
    BY <1>1
  <2> QED
    BY <2>1, <2>2, Zenon
<1>2. ASSUME NEW e \in Bytes, Len(e) = 2
      PROVE  Secrets!IsSuffix(e, s) <=> Len(s) > 1 /\ s[Len(s)] = e[2] /\ s[Len(s) - 1] = e[1]
  <2>1. Secrets!IsSuffix(e, s) <=>
          Len(e) <= Len(s) /\ \A i \in 1..Len(e) : e[Len(e) - i + 1] = s[Len(s) - i + 1]
    BY EndsIn
  <2>2. /\ \A i : i \in 1..Len(e) <=> i = 1 \/ i = 2
        /\ Len(e) - 1 + 1 = 2 /\ Len(s) - 1 + 1 = Len(s)
        /\ Len(e) - 2 + 1 = 1 /\ Len(s) - 2 + 1 = Len(s) - 1
        /\ Len(e) <= Len(s) <=> Len(s) > 1
    BY <1>2
  <2> QED
    BY <2>1, <2>2, Zenon
<1> QED
  BY <1>1, <1>2, EndingBytes

LEMMA WithoutEnd ==
  ASSUME NEW s \in Bytes, NEW e \in Bytes
  PROVE  /\ Secrets!Without(s, e) \in Bytes
         /\ ~Secrets!IsSuffix(e, s) => Secrets!Without(s, e) = s
BY Begun, BytesHaveLength DEF Secrets!Without

LEMMA WithoutJoined ==
  ASSUME NEW s \in Bytes, NEW e \in Bytes, NEW u \in Bytes, u = s \o e
  PROVE  Secrets!Without(u, e) = s
<1>1. /\ Len(u) = Len(s) + Len(e) /\ Len(s) \in Nat /\ Len(e) \in Nat
      /\ Len(u) - Len(e) = Len(s) /\ Len(s) <= Len(u) /\ Len(e) <= Len(u)
  <2>1. Len(u) = Len(s) + Len(e)
    BY Joined
  <2> QED
    BY <2>1, BytesHaveLength
<1>2. \A i \in 1..(Len(s) + Len(e)) : u[i] = IF i <= Len(s) THEN s[i] ELSE e[i - Len(s)]
  BY Joined
<1>3. Secrets!IsSuffix(e, u)
  <2>1. ASSUME NEW i \in 1..Len(e)
        PROVE  e[Len(e) - i + 1] = u[Len(u) - i + 1]
    BY <1>1, <1>2
  <2> QED
    BY <1>1, <2>1, EndsIn
<1>4. SubSeq(u, 1, Len(s)) = s
  <2>1. /\ SubSeq(u, 1, Len(s)) \in Bytes /\ Len(SubSeq(u, 1, Len(s))) = Len(s)
        /\ \A i \in 1..Len(s) : SubSeq(u, 1, Len(s))[i] = u[i]
    BY <1>1, Beginning, Zenon
  <2>2. \A i \in 1..Len(s) : SubSeq(u, 1, Len(s))[i] = s[i]
    BY <1>1, <1>2, <2>1
  <2> QED
    BY <2>1, <2>2, SeqEqual DEF Bytes
<1> QED
  BY <1>1, <1>3, <1>4 DEF Secrets!Without

(* One terminator is stripped and no more: what was typed is left, unless  *)
(* there is doubt about it.                                                *)
LEMMA StrippedType ==
  ASSUME NEW s \in Bytes
  PROVE  Secrets!Stripped(s) \in Bytes
BY WithoutEnd, EndingBytes DEF Secrets!Stripped

LEMMA StrippedTyped ==
  ASSUME NEW s \in Bytes, NEW e \in {<<>>, Secrets!LF, Secrets!CR, Secrets!CRLF},
         Secrets!IsSuffix(Secrets!CR, s) => e \notin {<<>>, Secrets!LF},
         Secrets!IsSuffix(Secrets!LF, s) => e # <<>>
  PROVE  Secrets!Stripped(s \o e) = s
<1>0. PICK u \in Bytes : u = s \o e
  BY EndingBytes, Joined
<1> SUFFICES Secrets!Stripped(u) = s
  BY <1>0
<1>1. e \in Bytes /\ u \in Bytes /\ Len(u) = Len(s) + Len(e)
  BY <1>0, EndingBytes, Joined
<1>2. \A i \in 1..(Len(s) + Len(e)) : u[i] = IF i <= Len(s) THEN s[i] ELSE e[i - Len(s)]
  BY <1>0, <1>1, Joined
<1>3. Secrets!Without(u, e) = s
  BY <1>0, <1>1, WithoutJoined
<1>4. CASE e = <<>>
  <2>1. u = s
    BY <1>0, <1>4, <1>1, Joined
  <2>2. /\ ~Secrets!IsSuffix(Secrets!CRLF, s) /\ ~Secrets!IsSuffix(Secrets!LF, s)
        /\ ~Secrets!IsSuffix(Secrets!CR, s)
    <3>1. ~Secrets!IsSuffix(Secrets!LF, s) /\ ~Secrets!IsSuffix(Secrets!CR, s)
      BY <1>4
    <3> QED
      BY <3>1, Terminators, BytesHaveLength
  <2>3. Secrets!Without(s, Secrets!CR) = s
    BY <2>2, WithoutEnd, EndingBytes
  <2> QED
    BY <2>1, <2>2, <2>3 DEF Secrets!Stripped
<1>5. CASE e = Secrets!LF
  <2>1. Len(e) = 1 /\ u[Len(s) + 1] = "LF"
    BY <1>1, <1>2, <1>5, EndingBytes, BytesHaveLength
  <2>2. Len(s) > 0 => u[Len(s)] = s[Len(s)]
    BY <1>1, <1>2, BytesHaveLength
  <2>3. Len(s) > 0 => s[Len(s)] # "CR"
    BY <1>5, Terminators
  <2>4. Len(s) \in Nat /\ Len(u) = Len(s) + 1 /\ Len(s) + 1 - 1 = Len(s)
    BY <1>1, <2>1, BytesHaveLength
  <2>5. Secrets!IsSuffix(Secrets!LF, u) /\ ~Secrets!IsSuffix(Secrets!CRLF, u)
    BY <1>1, <2>1, <2>2, <2>3, <2>4, Terminators
  <2> QED
    BY <1>3, <1>5, <2>5 DEF Secrets!Stripped
<1>6. CASE e = Secrets!CR
  <2>1. Len(e) = 1 /\ u[Len(s) + 1] = "CR"
    BY <1>1, <1>2, <1>6, EndingBytes, BytesHaveLength
  <2>2. ~Secrets!IsSuffix(Secrets!LF, u) /\ ~Secrets!IsSuffix(Secrets!CRLF, u)
    BY <1>1, <2>1, Terminators, BytesHaveLength
  <2> QED
    BY <1>3, <1>6, <2>2 DEF Secrets!Stripped
<1>7. CASE e = Secrets!CRLF
  <2>1. Len(e) = 2 /\ e[1] = "CR" /\ e[2] = "LF"
    BY <1>7, EndingBytes
  <2>2. u[Len(s) + 1] = "CR" /\ u[Len(s) + 2] = "LF"
    BY <1>1, <1>2, <1>7, <2>1, BytesHaveLength
  <2>3. Len(s) \in Nat /\ Len(u) = Len(s) + 2 /\ Len(s) + 2 - 1 = Len(s) + 1
    BY <1>1, <2>1, BytesHaveLength
  <2>4. Secrets!IsSuffix(Secrets!CRLF, u)
    BY <1>1, <2>2, <2>3, Terminators
  <2> QED
    BY <1>3, <1>7, <2>4 DEF Secrets!Stripped
<1> QED
  BY <1>4, <1>5, <1>6, <1>7

-----------------------------------------------------------------------------
LEMMA SecretsBegin == Secrets!Init => SecretsInv
<1> SUFFICES ASSUME Secrets!Init PROVE SecretsInv
  OBVIOUS
<1> USE DEF Secrets!Init
<1>1. typed \in Bytes /\ ending \in {<<>>, Secrets!LF, Secrets!CR, Secrets!CRLF} /\ ending \in Bytes
  BY TextIsBytes, EndingBytes
<1>2. text \in Bytes
  BY <1>1, Joined
<1> QED
  BY <1>1, <1>2 DEF SecretsInv, Secrets!TypeOK, Secrets!CapExact, Bytes

(* The receiver reads past the limit far enough to tell.                   *)
LEMMA ReadTells ==
  ASSUME NEW s \in Bytes, NEW line \in Bytes, s = line \o Secrets!LF
  PROVE  /\ Secrets!TooLong(s) <=> Len(line) > Limit
         /\ ~Secrets!TooLong(s) => Secrets!Read(s) = s
<1>1. Len(s) = Len(line) + 1 /\ Len(line) \in Nat /\ Limit \in Nat
  <2>1. Len(s) = Len(line) + Len(Secrets!LF)
    BY Joined, EndingBytes
  <2> QED
    BY <2>1, EndingBytes, BytesHaveLength, SizesAssumption
<1>2. s[Len(s)] = "LF"
  BY <1>1, Joined, EndingBytes
<1>3. CASE Len(s) < Limit + 3
  <2>1. Secrets!Read(s) = s
    BY <1>1, <1>3, Begun DEF Secrets!Read
  <2>2. Secrets!Without(s, Secrets!LF) = line
    BY EndingBytes, WithoutJoined
  <2> QED
    BY <1>1, <2>1, <2>2 DEF Secrets!TooLong
<1>4. CASE Len(s) >= Limit + 3
  <2>1. Secrets!Read(s) \in Bytes /\ Len(Secrets!Read(s)) = Limit + 2
    <3>1. Limit + 2 \in Nat /\ Limit + 2 <= Len(s) /\ ~(Len(s) < Limit + 2)
      BY <1>1, <1>4
    <3>2. Secrets!Read(s) = SubSeq(s, 1, Limit + 2)
      BY <3>1 DEF Secrets!Read
    <3> QED
      BY <3>1, <3>2, Beginning, Zenon
  <2>2. Len(Secrets!Without(Secrets!Read(s), Secrets!LF)) > Limit
    BY <1>1, <2>1, Begun, EndingBytes DEF Secrets!Without
  <2> QED
    BY <1>1, <1>4, <2>2 DEF Secrets!TooLong
<1> QED
  BY <1>1, <1>3, <1>4

LEMMA SecretsStep == SecretsInv /\ Secrets!Next => SecretsInv'
<1> SUFFICES ASSUME SecretsInv, Secrets!Next PROVE SecretsInv'
  OBVIOUS
<1>1. /\ typed \in Bytes /\ ending \in {<<>>, Secrets!LF, Secrets!CR, Secrets!CRLF}
      /\ ending \in Bytes /\ text \in Bytes
  BY TextIsBytes, EndingBytes DEF SecretsInv, Secrets!TypeOK, Bytes
<1> USE DEF SecretsInv, Secrets!TypeOK, Secrets!CapExact, Secrets!Clear, Secrets!given
<1>2. CASE Secrets!Resolve
  <2> USE <1>2 DEF Secrets!Resolve
  <2>1. CASE stage' = "resolved"
    <3>1. Secrets!IsRead => value = "file" /\ mode # "inline"
      BY <2>1 DEF Secrets!IsRead, Secrets!Fails
    <3>2. text' \in Bytes
      BY <1>1, <2>1, StrippedType
    <3>3. Secrets!Clear => text' = typed
      <4>1. CASE Secrets!IsRead
        <5>1. text' = Secrets!Stripped(text) /\ text = typed \o ending
          BY <2>1, <4>1
        <5>2. Secrets!Clear => Secrets!Stripped(typed \o ending) = typed
          BY <1>1, <3>1, <4>1, StrippedTyped
        <5> QED
          BY <5>1, <5>2
      <4>2. CASE ~Secrets!IsRead
        <5>1. text' = text /\ text = typed \o ending /\ ending = <<>>
          BY <2>1, <4>2 DEF Secrets!IsRead
        <5> QED
          BY <1>1, <5>1, Joined
      <4> QED
        BY <4>1, <4>2
    <3> QED
      BY <2>1, <3>2, <3>3 DEF Bytes
  <2>2. CASE stage' \in {"unresolvable", "unreadable"}
    BY <2>2
  <2> QED
    BY <2>1, <2>2
<1>3. CASE Secrets!Send
  <2>1. text' = text \o Secrets!LF /\ text' \in Bytes
    BY <1>1, <1>3, Joined, EndingBytes DEF Secrets!Send
  <2> QED
    BY <1>1, <1>3, <2>1 DEF Secrets!Send, Bytes
<1>4. CASE Secrets!Receive
  <2>1. PICK line \in Bytes : text = line \o Secrets!LF /\ (Secrets!Clear => line = typed)
    BY <1>4 DEF Secrets!Receive, Bytes
  <2>2. Len(text) = Len(line) + 1 /\ Len(line) \in Nat
    <3>1. Len(text) = Len(line) + Len(Secrets!LF)
      BY <2>1, Joined, EndingBytes
    <3> QED
      BY <3>1, EndingBytes, BytesHaveLength
  <2>3. /\ Secrets!TooLong(text) <=> Len(line) > Limit
        /\ ~Secrets!TooLong(text) => Secrets!Read(text) = text
    BY <1>1, <2>1, ReadTells
  <2>4. text' = text /\ stage' = IF Len(line) > Limit THEN "refused" ELSE "accepted"
    BY <1>4, <2>3 DEF Secrets!Receive
  <2>5. /\ stage' = "refused" => Len(text') - 1 > Limit
        /\ stage' = "accepted" => Len(text') - 1 <= Limit /\ (Secrets!Clear => Len(typed) <= Limit)
    BY <2>1, <2>2, <2>4, SizesAssumption
  <2> QED
    BY <1>1, <1>4, <2>1, <2>4, <2>5 DEF Secrets!Receive, Bytes
<1> QED
  BY <1>2, <1>3, <1>4 DEF Secrets!Next

LEMMA SecretsSafe == SecretsInv => Secrets!RoundTrip /\ Secrets!CapExact
BY DEF SecretsInv, Secrets!RoundTrip

-----------------------------------------------------------------------------
LEMMA ServiceTypeStep == TypeOK /\ BootInv /\ [Next]_vars => TypeOK'
<1> SUFFICES ASSUME TypeOK, StepInv, UnitInv, [Next]_vars PROVE TypeOK'
  BY DEF BootInv
<1> USE ServiceAssumption
    DEF TypeOK, StepInv, UnitInv, Report, Goto, Fault, Required, Tried, managerVars
<1>1. CASE Install
  BY <1>1 DEF Install
<1>2. CASE Write
  BY <1>2 DEF Write
<1>3. CASE LinuxReload \/ LinuxReloadGone
  BY <1>3 DEF LinuxReload, LinuxReloadGone, Reload
<1>4. CASE LinuxStart
  <2>1. (faults \in 0..MaxFaults)'
    BY <1>4 DEF LinuxStart
  <2>2. (enabled \in BOOLEAN /\ running \in Executable \cup {None} /\ loaded \in Executable \cup {None})'
    BY <1>4 DEF LinuxStart, EnableNow
  <2> QED
    BY <1>4, <2>1, <2>2, Zenon DEF LinuxStart
<1>5. CASE DarwinLoad
  BY <1>5 DEF DarwinLoad, Load
<1>6. CASE Uninstall
  BY <1>6 DEF Uninstall
<1>7. CASE LinuxStop
  <2>1. (faults \in 0..MaxFaults)'
    BY <1>7 DEF LinuxStop
  <2>2. (enabled \in BOOLEAN /\ running \in Executable \cup {None} /\ loaded \in Executable \cup {None})'
    BY <1>7 DEF LinuxStop
  <2> QED
    BY <1>7, <2>1, <2>2, Zenon DEF LinuxStop
<1>8. CASE DarwinUnload
  BY <1>8 DEF DarwinUnload
<1>9. CASE Unlink
  BY <1>9 DEF Unlink
<1>10. CASE Status
  BY <1>10 DEF Status
<1>11. CASE CutOff
  BY <1>11 DEF CutOff
<1>12. CASE DaemonEnds
  BY <1>12 DEF DaemonEnds
<1>13. CASE PathChanges
  BY <1>13 DEF PathChanges
<1>14. CASE Boot
  BY <1>14 DEF Boot, Reload, AtBoot
<1>15. CASE UNCHANGED vars
  BY <1>15 DEF vars
<1> QED
  BY <1>1, <1>2, <1>3, <1>4, <1>5, <1>6, <1>7, <1>8, <1>9, <1>10, <1>11, <1>12, <1>13, <1>14, <1>15
     DEF Next

partVars == <<part, serviceVars, keygenVars, secretVars, doctorVars, shared>>

(* Whichever part a behaviour is of: its invariant.                        *)
PartInv ==
  /\ part \in Parts
  /\ part = "service" => TypeOK /\ BootInv
  /\ part = "keygen"  => KeygenInv
  /\ part = "secrets" => SecretsInv
  /\ part = "doctor"  => DoctorInv

LEMMA PartBegins == PartInit => PartInv
<1> SUFFICES ASSUME PartInit PROVE PartInv
  OBVIOUS
<1> USE DEF PartInit, Parts
<1>1. CASE part = "service"
  <2>1. Init
    BY <1>1
  <2>2. BootInv
    BY <2>1, BootInit
  <2>3. TypeOK
    <3>1. faults \in 0..MaxFaults
      BY <2>1, ServiceAssumption DEF Init
    <3> QED
      BY <2>1, <3>1 DEF Init, TypeOK
  <2> QED
    BY <1>1, <2>2, <2>3 DEF PartInv
<1>2. CASE part = "keygen"
  <2>1. Keygen!Init
    BY <1>2
  <2> QED
    BY <1>2, <2>1, KeygenBegins DEF PartInv
<1>3. CASE part = "secrets"
  <2>1. Secrets!Init
    BY <1>3
  <2> QED
    BY <1>3, <2>1, SecretsBegin DEF PartInv
<1>4. CASE part = "doctor"
  <2>1. Doctor!Init
    BY <1>4
  <2> QED
    BY <1>4, <2>1, DoctorBegins DEF PartInv
<1> QED
  BY <1>1, <1>2, <1>3, <1>4

LEMMA PartIdles == PartInv /\ UNCHANGED partVars => PartInv'
<1> SUFFICES ASSUME PartInv, UNCHANGED partVars PROVE PartInv'
  OBVIOUS
<1> USE DEF partVars, serviceVars, keygenVars, secretVars, doctorVars, shared, PartInv
<1>1. (TypeOK /\ BootInv) => (TypeOK /\ BootInv)'
  BY DEF TypeOK, BootInv, StepInv, UnitInv, ReportedAtBoot, AtBoot
<1>2. KeygenInv => KeygenInv'
  BY DEF KeygenInv, NewestInv, RunInv, Keygen!TypeOK, Keygen!CreatedIsPair
<1>3. SecretsInv => SecretsInv'
  BY DEF SecretsInv, Secrets!TypeOK, Secrets!Clear, Secrets!CapExact
<1>4. DoctorInv => DoctorInv'
  BY DEF DoctorInv, Doctor!TypeOK, Doctor!CleanBill, Doctor!NoFalseAlarm, Fine, Bad
<1> QED
  BY <1>1, <1>2, <1>3, <1>4

LEMMA PartStep == PartInv /\ [PartNext]_partVars => PartInv'
<1> SUFFICES ASSUME PartInv, PartNext PROVE PartInv'
  BY PartIdles
<1>1. CASE part = "service"
  <2>1. Next /\ part' = part
    BY <1>1 DEF PartNext
  <2> QED
    BY <1>1, <2>1, BootStep, ServiceTypeStep DEF PartInv
<1>2. CASE part = "keygen"
  <2>1. Keygen!Next /\ part' = part
    BY <1>2 DEF PartNext
  <2> QED
    BY <1>2, <2>1, KeygenStep DEF PartInv
<1>3. CASE part = "secrets"
  <2>1. Secrets!Next /\ part' = part
    BY <1>3 DEF PartNext
  <2> QED
    BY <1>3, <2>1, SecretsStep DEF PartInv
<1>4. CASE part = "doctor"
  <2>1. Doctor!Next /\ part' = part
    BY <1>4 DEF PartNext
  <2> QED
    BY <1>4, <2>1, DoctorStep DEF PartInv
<1> QED
  BY <1>1, <1>2, <1>3, <1>4 DEF PartInv, Parts

LEMMA PartInvariant == PartSpec => []PartInv
BY PartBegins, PartStep, PTL DEF PartSpec, partVars

-----------------------------------------------------------------------------
(* Each command keeps its variables to their types, whatever fails.        *)
THEOREM PartsTyped == PartSpec => []PartTypeOK
<1>1. PartInv => PartTypeOK
  BY DEF PartInv, Parts, PartTypeOK, KeygenInv, SecretsInv, DoctorInv
<1> QED
  BY <1>1, PartInvariant, PTL

(* However many runs of keygen fail or are cut off between any two steps,  *)
(* an installed key file goes only when the run's new one, written to its  *)
(* end, takes its place, and without --overwrite not even then             *)
(* (keygen.py:33-55).                                                      *)
THEOREM OldPairSafe == PartSpec => PairChanges
<1>1. PartInv /\ [PartNext]_partVars =>
        [part = "keygen" => Keygen!PairChangesStep]_<<keygenVars, shared>>
  BY KeygenReplaces DEF PartInv, PartNext, partVars
<1> QED
  BY <1>1, PartInvariant, PTL DEF PartSpec, partVars, PairChanges

(* No crash, between the two renames or elsewhere, leaves a public key     *)
(* that is newer than the private one (keygen.py:57-59).                   *)
THEOREM PrivateKeyWins == PartSpec => []PrivateWins
<1>1. PartInv => PrivateWins
  BY DEF PartInv, KeygenInv, NewestInv, PrivateWins, Keygen!PrivateWins
<1> QED
  BY <1>1, PartInvariant, PTL

(* "created" is reported of both files, written to their end, and of the   *)
(* pair of this run (keygen.py:46-67).                                     *)
THEOREM CreatedWhole == PartSpec => []CreatedIsPair
<1>1. PartInv => CreatedIsPair
  BY DEF PartInv, KeygenInv, CreatedIsPair
<1> QED
  BY <1>1, PartInvariant, PTL

(* A passphrase of any length, with any terminator about which there is no *)
(* doubt, reaches load-key as typed, one newline after it (config.py:54-58,*)
(* client.py:127, cli.py:178-181).                                         *)
THEOREM ArrivesAsTyped == PartSpec => []RoundTrip
<1>1. PartInv => RoundTrip
  BY SecretsSafe DEF PartInv, RoundTrip
<1> QED
  BY <1>1, PartInvariant, PTL

(* For any limit a passphrase is refused exactly if it is longer, and one  *)
(* that is accepted has not been cut short (cli.py:178-186).               *)
THEOREM RefusedIfLong == PartSpec => []CapExact
<1>1. PartInv => CapExact
  BY SecretsSafe DEF PartInv, CapExact
<1> QED
  BY <1>1, PartInvariant, PTL

(* For any number of datasets, exit code 0 of doctor stands for everything *)
(* it checks: the files, ssh, the host, the filters and the statuses       *)
(* (diagnostics.py:161-178).                                               *)
THEOREM CleanBillTells == PartSpec => []CleanBill
<1>1. PartInv => CleanBill
  BY DEF PartInv, DoctorInv, CleanBill
<1> QED
  BY <1>1, PartInvariant, PTL

(* ... and exit code 1 for something wrong (diagnostics.py:38-153).        *)
THEOREM AlarmsTell == PartSpec => []NoFalseAlarm
<1>1. PartInv => NoFalseAlarm
  BY DEF PartInv, DoctorInv, NoFalseAlarm
<1> QED
  BY <1>1, PartInvariant, PTL
=============================================================================
