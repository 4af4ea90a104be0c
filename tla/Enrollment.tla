----------------------------- MODULE Enrollment -----------------------------
(***************************************************************************)
(* matic_sdk/enrollment.py and credentials.py: enroll() and import_token() *)
(* on one device alias, that is, on one directory of two private files,    *)
(* the client identity and the robot's token.                              *)
(*                                                                         *)
(* Programs are separate processes (the CLI run twice, or run again after  *)
(* a failure): nothing locks the directory, so every system call on a file *)
(* is a step of its own and any process may die between two of them.       *)
(***************************************************************************)
EXTENDS Naturals

CONSTANTS
    Programs,   (* the runs of the program                        *)
    Importers   (* those that import a token instead of pairing   *)

Absent == <<"absent">>
Partial == <<"partial">>     \* created, and not all of it written
Nobody == <<"nobody">>

ASSUME ProgramsAssumption ==
    /\ Importers \subseteq Programs
    /\ {Absent, Partial, Nobody} \cap Programs = {}

VARIABLES
    idFile,     \* client-id: absent, partial, or the identity in it
    tokenFile,  \* bot-token.pb: absent, partial, or the token in it
    pc,         \* where each program is
    identity,         \* its client_id
    minted,     \* the tokens the robot has issued over Bluetooth
    outcome     \* what each program reported

vars == <<idFile, tokenFile, pc, identity, minted, outcome>>

\* A fresh uuid4 is named for the program that draws it, a token for the
\* identity it was asked for and the program that asked; an imported token
\* carries whatever identity it was issued to.
Identities == Programs \cup {Nobody}
Tokens == Identities \X Programs
Token(i, p) == <<i, p>>
IssuedTo(token) == token[1]

Init ==
    /\ idFile = Absent
    /\ tokenFile = Absent
    /\ pc = [p \in Programs |-> "start"]
    /\ identity = [p \in Programs |-> Nobody]
    /\ minted = {}
    /\ outcome = [p \in Programs |-> "none"]
------------------------------------------------------------------------------
At(p, place) == pc[p] = place
Go(p, place) == pc' = [pc EXCEPT ![p] = place]
Report(p, what) == Go(p, "done") /\ outcome' = [outcome EXCEPT ![p] = what]
files == <<idFile, tokenFile>>

\* store.enrolled: the token file exists, whatever is in it.
CheckEnrolled(p) ==
    /\ At(p, "start") /\ p \notin Importers
    /\ IF tokenFile = Absent THEN Go(p, "scan") /\ UNCHANGED outcome
       ELSE Report(p, "refused")
    /\ UNCHANGED <<files, identity, minted>>

\* import_token has read and decoded its source; it asks for no identity.
Import(p) ==
    /\ At(p, "start") /\ p \in Importers
    /\ Go(p, "createToken")
    /\ UNCHANGED <<files, identity, minted, outcome>>

\* No robot, no such name, no connection, no answer in time, or an answer that
\* is no token or one for another identity; a source that is no token.
GivesUp(p) ==
    /\ \/ pc[p] \in {"scan", "exchange", "reply"}
       \/ At(p, "start") /\ p \in Importers
    /\ Report(p, "error")
    /\ UNCHANGED <<files, identity, minted>>

\* A robot is chosen; load_or_create_client_id looks for the file.
FindIdentity(p) ==
    /\ At(p, "scan")
    /\ Go(p, IF idFile = Absent THEN "createId" ELSE "readId")
    /\ UNCHANGED <<files, identity, minted, outcome>>

ReadIdentity(p) ==
    /\ At(p, "readId")
    /\ IF idFile = Partial
       THEN Report(p, "error") /\ UNCHANGED identity
       ELSE identity' = [identity EXCEPT ![p] = idFile] /\ Go(p, "exchange") /\ UNCHANGED outcome
    /\ UNCHANGED <<files, minted>>

\* Mutant: the file is opened with O_TRUNC instead of O_EXCL.
CreateIdentityAnyway(p) ==
    /\ At(p, "createId")
    /\ idFile' = Partial /\ Go(p, "writeId")
    /\ UNCHANGED <<tokenFile, identity, minted, outcome>>

\* _write_new_private, first half: O_CREAT and O_EXCL.
CreateIdentity(p) ==
    /\ At(p, "createId")
    /\ IF idFile = Absent
       THEN idFile' = Partial /\ Go(p, "writeId") /\ UNCHANGED outcome
       ELSE Report(p, "error") /\ UNCHANGED idFile
    /\ UNCHANGED <<tokenFile, identity, minted>>

\* Second half: write until all is written, then fsync.
WriteIdentity(p) ==
    /\ At(p, "writeId")
    /\ idFile' = p
    /\ identity' = [identity EXCEPT ![p] = p]
    /\ Go(p, "exchange")
    /\ UNCHANGED <<tokenFile, minted, outcome>>

\* The acknowledged write of the request; the robot issues a token.
Exchange(p) ==
    /\ At(p, "exchange")
    /\ minted' = minted \cup {Token(identity[p], p)}
    /\ Go(p, "reply")
    /\ UNCHANGED <<files, identity, outcome>>

\* The read of the token, decoded and found to be for this identity.
TokenArrives(p) ==
    /\ At(p, "reply")
    /\ Go(p, "createToken")
    /\ UNCHANGED <<files, identity, minted, outcome>>

\* Mutant: the file is opened with O_TRUNC instead of O_EXCL.
CreateTokenAnyway(p) ==
    /\ At(p, "createToken")
    /\ tokenFile' = Partial /\ Go(p, "writeToken")
    /\ UNCHANGED <<idFile, identity, minted, outcome>>

CreateToken(p) ==
    /\ At(p, "createToken")
    /\ IF tokenFile = Absent
       THEN tokenFile' = Partial /\ Go(p, "writeToken") /\ UNCHANGED outcome
       ELSE Report(p, "error") /\ UNCHANGED tokenFile
    /\ UNCHANGED <<idFile, identity, minted>>

WriteToken(p) ==
    /\ At(p, "writeToken")
    /\ tokenFile' = Token(identity[p], p)
    /\ Report(p, "enrolled")
    /\ UNCHANGED <<idFile, identity, minted>>

\* Mutant: a write that fails is not reported.
WriteFailsUnseen(p) ==
    /\ pc[p] \in {"writeId", "writeToken"}
    /\ IF At(p, "writeToken") THEN Report(p, "enrolled") ELSE Report(p, "error")
    /\ UNCHANGED <<files, identity, minted>>

\* What write and fsync leave of the file when they do not both succeed: what
\* there was, part of it, or all of it with nobody to report so.
LeavesBehind(p) ==
    \/ UNCHANGED files
    \/ At(p, "writeId") /\ idFile' = p /\ UNCHANGED tokenFile
    \/ At(p, "writeToken") /\ tokenFile' = Token(identity[p], p) /\ UNCHANGED idFile

\* The disk is full, or does not confirm what was written.
WriteFails(p) ==
    /\ pc[p] \in {"writeId", "writeToken"}
    /\ LeavesBehind(p)
    /\ Report(p, "error")
    /\ UNCHANGED <<identity, minted>>

\* The process is killed.
Dies(p) ==
    /\ pc[p] # "done"
    /\ LeavesBehind(p)
    /\ Go(p, "done")
    /\ UNCHANGED <<identity, minted, outcome>>
------------------------------------------------------------------------------
Step(p) ==
    \/ CheckEnrolled(p) \/ Import(p) \/ GivesUp(p)
    \/ FindIdentity(p) \/ ReadIdentity(p) \/ CreateIdentity(p) \/ WriteIdentity(p)
    \/ Exchange(p) \/ TokenArrives(p) \/ CreateToken(p) \/ WriteToken(p)
    \/ WriteFails(p) \/ Dies(p)

AllDone == (\A p \in Programs : At(p, "done")) /\ UNCHANGED vars

Next == (\E p \in Programs : Step(p)) \/ AllDone

Spec == Init /\ [][Next]_vars
------------------------------------------------------------------------------
(* Properties.                                                              *)

Places == {"start", "scan", "createId", "readId", "writeId", "exchange", "reply",
           "createToken", "writeToken", "done"}

\* Types of the variables: no request is made with an identity that is none.
TypeOK ==
    /\ idFile \in {Absent, Partial} \cup Programs
    /\ tokenFile \in {Absent, Partial} \cup Tokens
    /\ pc \in [Programs -> Places]
    /\ identity \in [Programs -> Identities]
    /\ minted \subseteq Tokens
    /\ outcome \in [Programs -> {"none", "refused", "error", "enrolled"}]

\* However many programs race, the robot is asked for tokens for one identity,
\* and never for none.
OneIdentity == \A m, n \in minted : IssuedTo(m) = IssuedTo(n) /\ IssuedTo(m) # Nobody

\* A program that reports success has left its own token in the file, whole,
\* and next to it the identity that token was issued to: no other program
\* succeeds on the same alias, and nothing that fails or dies undoes it.
EnrolledIsUsable ==
    \A p \in Programs : outcome[p] = "enrolled" =>
        /\ tokenFile = Token(identity[p], p)
        /\ p \notin Importers => idFile = identity[p] /\ tokenFile \in minted

\* "An existing enrollment is never overwritten": no step changes a file that
\* is whole, nor takes one away.
Whole(file) == file \notin {Absent, Partial}
NeverOverwritten ==
    [][/\ Whole(tokenFile) => tokenFile' = tokenFile
       /\ Whole(idFile) => idFile' = idFile
       /\ tokenFile # Absent => tokenFile' # Absent
       /\ idFile # Absent => idFile' # Absent]_vars
------------------------------------------------------------------------------
(* The inductive invariant behind the safety properties.                    *)

\* A program that has an identity has the one in the file; only a program that
\* imports has none by the time it reaches the token.
IdentityIsFiled ==
    \A p \in Programs :
        /\ identity[p] # Nobody => idFile = identity[p]
        /\ p \in Importers =>
              identity[p] = Nobody /\ pc[p] \in {"start", "createToken", "writeToken", "done"}
        /\ p \notin Importers /\ pc[p] \in {"exchange", "reply", "createToken", "writeToken"}
              => identity[p] # Nobody

\* Whoever writes a file has created it, and is alone with it until it is whole.
WriterIsAlone ==
    \A p \in Programs :
        /\ At(p, "writeId") => idFile = Partial
        /\ At(p, "writeToken") => tokenFile = Partial
        /\ \A q \in Programs \ {p} : /\ ~(At(p, "writeId") /\ At(q, "writeId"))
                                     /\ ~(At(p, "writeToken") /\ At(q, "writeToken"))

\* Only one that saw the file there reads it; tokens are asked for the identity
\* in the file; a pairing program has asked before it saves.
TokensAreForTheFile ==
    /\ \A p \in Programs : At(p, "readId") => idFile # Absent
    /\ \A m \in minted : idFile = IssuedTo(m) /\ idFile \in Programs
    /\ \A p \in Programs \ Importers :
          pc[p] \in {"reply", "createToken", "writeToken"} => Token(identity[p], p) \in minted

\* A program reports nothing before it is done.
StillSilent == \A p \in Programs : outcome[p] # "none" => At(p, "done")

IInv ==
    /\ TypeOK
    /\ StillSilent
    /\ IdentityIsFiled
    /\ WriterIsAlone
    /\ TokensAreForTheFile
    /\ EnrolledIsUsable
==============================================================================
