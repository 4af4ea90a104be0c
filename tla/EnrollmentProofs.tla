-------------------------- MODULE EnrollmentProofs --------------------------
(***************************************************************************)
(* Safety of enrollment for any number of programs: IInv is inductive, and *)
(* the properties follow.                                                  *)
(***************************************************************************)
EXTENDS Enrollment, TLAPS

USE DEF At, Go, Report, Identities

(* A token is none of the marks a file without one carries.                *)
LEMMA TokensAreWhole ==
    /\ \A i, p : Token(i, p) \notin {Absent, Partial}
    /\ Absent # Partial
    /\ \A i \in Programs : i \notin {Absent, Partial, Nobody}
BY ProgramsAssumption, SMT DEF Token, Absent, Partial, Nobody

(* What a token is, and whom it names.                                      *)
LEMMA TokensAreTokens ==
    /\ \A i \in Identities, p \in Programs : Token(i, p) \in Tokens
    /\ \A i, p : IssuedTo(Token(i, p)) = i
BY DEF Token, Tokens, IssuedTo
------------------------------------------------------------------------------
(* Each part of the invariant, step by step.  The cases of a step are the   *)
(* actions; most touch one file or one program counter only.                *)

(* Types are kept.                                                          *)
LEMMA StepKeepsTypes ==
    ASSUME TypeOK, WriterIsAlone, IdentityIsFiled, TokensAreForTheFile,
           NEW p \in Programs, Step(p)
    PROVE  TypeOK'
<1> USE TokensAreTokens DEF TypeOK, Places, files
<1>1. CASE CheckEnrolled(p)  BY <1>1 DEF CheckEnrolled
<1>2. CASE Import(p)         BY <1>2 DEF Import
<1>3. CASE GivesUp(p)        BY <1>3 DEF GivesUp
<1>4. CASE FindIdentity(p)   BY <1>4 DEF FindIdentity
<1>5. CASE ReadIdentity(p)
  <2>1. idFile # Partial => idFile \in Programs
    BY <1>5 DEF ReadIdentity, TokensAreForTheFile
  <2> QED BY <1>5, <2>1 DEF ReadIdentity
<1>6. CASE CreateIdentity(p) BY <1>6 DEF CreateIdentity
<1>7. CASE WriteIdentity(p)  BY <1>7 DEF WriteIdentity
<1>8. CASE Exchange(p)
  <2>1. identity[p] \in Identities BY <1>8 DEF Exchange
  <2> QED BY <1>8, <2>1 DEF Exchange
<1>9. CASE TokenArrives(p)   BY <1>9 DEF TokenArrives
<1>10. CASE CreateToken(p)   BY <1>10 DEF CreateToken
<1>11. CASE WriteToken(p)    BY <1>11 DEF WriteToken
<1>12. CASE WriteFails(p)    BY <1>12 DEF WriteFails, LeavesBehind
<1>13. CASE Dies(p)          BY <1>13 DEF Dies, LeavesBehind
<1> QED BY <1>1, <1>2, <1>3, <1>4, <1>5, <1>6, <1>7, <1>8, <1>9, <1>10, <1>11,
           <1>12, <1>13 DEF Step

(* O_EXCL keeps writers apart.                                              *)
LEMMA StepKeepsWritersApart ==
    ASSUME TypeOK, WriterIsAlone, NEW p \in Programs, Step(p)
    PROVE  WriterIsAlone'
<1> USE DEF TypeOK, WriterIsAlone, files
<1>1. CASE CheckEnrolled(p)  BY <1>1 DEF CheckEnrolled
<1>2. CASE Import(p)         BY <1>2 DEF Import
<1>3. CASE GivesUp(p)        BY <1>3 DEF GivesUp
<1>4. CASE FindIdentity(p)   BY <1>4 DEF FindIdentity
<1>5. CASE ReadIdentity(p)   BY <1>5 DEF ReadIdentity
<1>6. CASE CreateIdentity(p) BY <1>6, TokensAreWhole DEF CreateIdentity
<1>7. CASE WriteIdentity(p)  BY <1>7 DEF WriteIdentity
<1>8. CASE Exchange(p)       BY <1>8 DEF Exchange
<1>9. CASE TokenArrives(p)   BY <1>9 DEF TokenArrives
<1>10. CASE CreateToken(p)   BY <1>10, TokensAreWhole DEF CreateToken
<1>11. CASE WriteToken(p)    BY <1>11 DEF WriteToken
<1>12. CASE WriteFails(p)    BY <1>12 DEF WriteFails, LeavesBehind
<1>13. CASE Dies(p)          BY <1>13 DEF Dies, LeavesBehind
<1> QED BY <1>1, <1>2, <1>3, <1>4, <1>5, <1>6, <1>7, <1>8, <1>9, <1>10, <1>11,
           <1>12, <1>13 DEF Step

(* The identity a program uses is the one in the file.                      *)
LEMMA StepKeepsIdentities ==
    ASSUME TypeOK, WriterIsAlone, IdentityIsFiled, TokensAreForTheFile,
           NEW p \in Programs, Step(p)
    PROVE  IdentityIsFiled'
<1> USE TokensAreWhole DEF TypeOK, IdentityIsFiled, files
<1>1. CASE CheckEnrolled(p)  BY <1>1 DEF CheckEnrolled
<1>2. CASE Import(p)         BY <1>2 DEF Import
<1>3. CASE GivesUp(p)        BY <1>3 DEF GivesUp
<1>4. CASE FindIdentity(p)   BY <1>4 DEF FindIdentity
<1>5. CASE ReadIdentity(p)
  <2>1. idFile # Partial => idFile \in Programs
    BY <1>5 DEF ReadIdentity, TokensAreForTheFile
  <2> QED BY <1>5, <2>1 DEF ReadIdentity
<1>6. CASE CreateIdentity(p) BY <1>6 DEF CreateIdentity
<1>7. CASE WriteIdentity(p)
  <2>1. \A q \in Programs : identity[q] = Nobody
    BY <1>7 DEF WriteIdentity, WriterIsAlone
  <2> QED BY <1>7, <2>1 DEF WriteIdentity
<1>8. CASE Exchange(p)       BY <1>8 DEF Exchange
<1>9. CASE TokenArrives(p)   BY <1>9 DEF TokenArrives
<1>10. CASE CreateToken(p)   BY <1>10 DEF CreateToken
<1>11. CASE WriteToken(p)    BY <1>11 DEF WriteToken
<1>12. CASE WriteFails(p) \/ Dies(p)
  <2>1. At(p, "writeId") => \A q \in Programs : identity[q] = Nobody
    BY DEF WriterIsAlone
  <2>2. /\ identity' = identity /\ pc' = [pc EXCEPT ![p] = "done"]
        /\ idFile' = idFile \/ (At(p, "writeId") /\ idFile' = p)
    BY <1>12 DEF WriteFails, Dies, LeavesBehind, Report, Go
  <2> QED BY <2>1, <2>2
<1> QED BY <1>1, <1>2, <1>3, <1>4, <1>5, <1>6, <1>7, <1>8, <1>9, <1>10, <1>11,
           <1>12 DEF Step

(* Tokens are asked for the identity in the file.                           *)
LEMMA StepKeepsTokens ==
    ASSUME TypeOK, WriterIsAlone, IdentityIsFiled, TokensAreForTheFile,
           NEW p \in Programs, Step(p)
    PROVE  TokensAreForTheFile'
<1> USE DEF TypeOK, TokensAreForTheFile, files
<1>1. CASE CheckEnrolled(p)  BY <1>1 DEF CheckEnrolled
<1>2. CASE Import(p)         BY <1>2 DEF Import
<1>3. CASE GivesUp(p)        BY <1>3 DEF GivesUp
<1>4. CASE FindIdentity(p)   BY <1>4 DEF FindIdentity
<1>5. CASE ReadIdentity(p)   BY <1>5 DEF ReadIdentity
<1>6. CASE CreateIdentity(p)
  <2>1. idFile = Absent => minted = {}
    BY TokensAreWhole
  <2> QED BY <1>6, <2>1, TokensAreWhole DEF CreateIdentity
<1>7. CASE WriteIdentity(p)
  <2>1. minted = {}
    BY <1>7, TokensAreWhole DEF WriteIdentity, WriterIsAlone
  <2> QED BY <1>7, <2>1, TokensAreWhole DEF WriteIdentity
<1>8. CASE Exchange(p)
  <2>1. IssuedTo(Token(identity[p], p)) = idFile
    BY <1>8, TokensAreTokens DEF Exchange, IdentityIsFiled
  <2>2. idFile \in Programs
    BY <1>8 DEF Exchange, IdentityIsFiled
  <2> QED BY <1>8, <2>1, <2>2 DEF Exchange
<1>9. CASE TokenArrives(p)   BY <1>9 DEF TokenArrives
<1>10. CASE CreateToken(p)   BY <1>10 DEF CreateToken
<1>11. CASE WriteToken(p)    BY <1>11 DEF WriteToken
<1>12. CASE WriteFails(p) \/ Dies(p)
  <2>1. At(p, "writeId") => minted = {}
    BY TokensAreWhole DEF WriterIsAlone
  <2>2. /\ identity' = identity /\ minted' = minted /\ pc' = [pc EXCEPT ![p] = "done"]
        /\ idFile' = idFile \/ (At(p, "writeId") /\ idFile' = p)
    BY <1>12 DEF WriteFails, Dies, LeavesBehind, Report, Go
  <2> QED BY <2>1, <2>2, TokensAreWhole
<1> QED BY <1>1, <1>2, <1>3, <1>4, <1>5, <1>6, <1>7, <1>8, <1>9, <1>10, <1>11,
           <1>12 DEF Step

(* A report is the last thing a program does.                               *)
LEMMA StepKeepsSilence ==
    ASSUME TypeOK, StillSilent, NEW p \in Programs, Step(p)
    PROVE  StillSilent'
BY DEF TypeOK, StillSilent, Step, CheckEnrolled, Import, GivesUp, FindIdentity,
       ReadIdentity, CreateIdentity, WriteIdentity, Exchange, TokenArrives, CreateToken,
       WriteToken, WriteFails, Dies, LeavesBehind

(* A success is not undone: whoever could touch the file has not created it. *)
LEMMA StepKeepsEnrolled ==
    ASSUME IInv, NEW p \in Programs, Step(p)
    PROVE  EnrolledIsUsable'
<1> USE TokensAreWhole DEF IInv, TypeOK, EnrolledIsUsable, files
<1>1. CASE CheckEnrolled(p)  BY <1>1 DEF CheckEnrolled
<1>2. CASE Import(p)         BY <1>2 DEF Import
<1>3. CASE GivesUp(p)        BY <1>3 DEF GivesUp
<1>4. CASE FindIdentity(p)   BY <1>4 DEF FindIdentity
<1>5. CASE ReadIdentity(p)
  <2>1. outcome[p] = "none" BY <1>5 DEF ReadIdentity, StillSilent
  <2> QED BY <1>5, <2>1 DEF ReadIdentity
<1>6. CASE CreateIdentity(p) BY <1>6 DEF CreateIdentity, TokensAreForTheFile
<1>7. CASE WriteIdentity(p)
  <2>1. outcome[p] = "none" /\ idFile = Partial
    BY <1>7 DEF WriteIdentity, StillSilent, WriterIsAlone
  <2> QED BY <1>7, <2>1 DEF WriteIdentity, TokensAreForTheFile
<1>8. CASE Exchange(p)       BY <1>8 DEF Exchange
<1>9. CASE TokenArrives(p)   BY <1>9 DEF TokenArrives
<1>10. CASE CreateToken(p)   BY <1>10 DEF CreateToken
<1>11. CASE WriteToken(p)
  <2>1. p \notin Importers =>
           identity[p] = idFile /\ Token(identity[p], p) \in minted
    BY <1>11 DEF WriteToken, IdentityIsFiled, TokensAreForTheFile
  <2>2. \A q \in Programs : outcome[q] # "enrolled"
    BY <1>11 DEF WriteToken, WriterIsAlone
  <2> QED BY <1>11, <2>1, <2>2 DEF WriteToken
<1>12. CASE WriteFails(p) \/ Dies(p)
  <2>1. At(p, "writeId") => idFile = Partial /\ minted = {}
    BY DEF WriterIsAlone, TokensAreForTheFile
  <2>2. At(p, "writeToken") => \A q \in Programs : outcome[q] # "enrolled"
    BY DEF WriterIsAlone
  <2>3. /\ identity' = identity /\ minted' = minted
        /\ \A q \in Programs : outcome'[q] = "enrolled" => outcome[q] = "enrolled"
        /\ idFile' = idFile \/ At(p, "writeId")
        /\ tokenFile' = tokenFile \/ At(p, "writeToken")
    BY <1>12 DEF WriteFails, Dies, LeavesBehind, Report, Go
  <2>4. ASSUME NEW q \in Programs, outcome'[q] = "enrolled"
        PROVE  tokenFile' = tokenFile /\ (q \notin Importers => idFile' = idFile)
    BY <2>1, <2>2, <2>3, <2>4
  <2> QED BY <2>3, <2>4
<1> QED BY <1>1, <1>2, <1>3, <1>4, <1>5, <1>6, <1>7, <1>8, <1>9, <1>10, <1>11,
           <1>12 DEF Step
------------------------------------------------------------------------------
(* No invariant part is about the past or the future of a step that changes *)
(* nothing.                                                                 *)
LEMMA StutterKeeps == ASSUME IInv, UNCHANGED vars PROVE IInv'
BY DEF IInv, vars, TypeOK, IdentityIsFiled, WriterIsAlone, TokensAreForTheFile,
       EnrolledIsUsable, StillSilent

(* IInv holds throughout.                                                   *)
THEOREM Invariance == Spec => []IInv
<1>1. Init => IInv
  BY TokensAreWhole DEF Init, IInv, TypeOK, Places, IdentityIsFiled, WriterIsAlone,
     TokensAreForTheFile, EnrolledIsUsable, StillSilent
<1>2. IInv /\ [Next]_vars => IInv'
  <2>1. ASSUME IInv, NEW p \in Programs, Step(p) PROVE IInv'
    BY <2>1, StepKeepsTypes, StepKeepsWritersApart, StepKeepsIdentities,
       StepKeepsTokens, StepKeepsEnrolled, StepKeepsSilence DEF IInv
  <2> QED BY <2>1, StutterKeeps DEF Next, AllDone
<1> QED BY <1>1, <1>2, PTL DEF Spec

(* Type correctness of the enrollment of any number of programs.            *)
THEOREM TypeCorrect == Spec => []TypeOK
<1>1. IInv => TypeOK BY DEF IInv
<1> QED BY <1>1, Invariance, PTL

(* A reported success is a usable enrollment, for good.                     *)
THEOREM SuccessIsUsable == Spec => []EnrolledIsUsable
<1>1. IInv => EnrolledIsUsable BY DEF IInv
<1> QED BY <1>1, Invariance, PTL

(* Racing programs never make the robot know two identities of one alias.   *)
THEOREM IdentityIsUnique == Spec => []OneIdentity
<1>1. IInv => OneIdentity BY TokensAreWhole DEF IInv, OneIdentity, TokensAreForTheFile
<1> QED BY <1>1, Invariance, PTL

(* No step overwrites or removes a file that is whole.                      *)
THEOREM FilesAreFinal == Spec => NeverOverwritten
<1> DEFINE Keeps == /\ Whole(tokenFile) => tokenFile' = tokenFile
                    /\ Whole(idFile) => idFile' = idFile
                    /\ tokenFile # Absent => tokenFile' # Absent
                    /\ idFile # Absent => idFile' # Absent
<1>1. IInv /\ [Next]_vars => [Keeps]_vars
  <2>1. ASSUME IInv, NEW p \in Programs, Step(p) PROVE Keeps
    BY <2>1, TokensAreWhole
       DEF IInv, WriterIsAlone, Whole, Step, files, CheckEnrolled, Import, GivesUp,
           FindIdentity, ReadIdentity, CreateIdentity, WriteIdentity, Exchange,
           TokenArrives, CreateToken, WriteToken, WriteFails, Dies, LeavesBehind
  <2> QED BY <2>1 DEF Next, AllDone, vars
<1> QED BY <1>1, Invariance, PTL DEF Spec, NeverOverwritten
==============================================================================
