--------------------------- MODULE CaStoreProofs ---------------------------
(***************************************************************************)
(* Proofs about CaStore, and about CaTrust over it, for any number of      *)
(* calls, key pairs and crashes.                                           *)
(* CaInv is inductive: as long as no two calls were generating at once,    *)
(* the step of the one that is tells what both files hold, and the key     *)
(* appears only after its certificate.                                     *)
(***************************************************************************)
EXTENDS CaTrust, TLAPS

(* No file content is two things at once.                                  *)
LEMMA ContentsApart ==
  /\ Absent # Empty
  /\ \A p \in Pairs : p # Absent /\ p # Empty /\ p # 0
  BY CaAssumption DEF Pairs

LEMMA InitCa == Init => CaInv
<1> SUFFICES ASSUME Init PROVE CaInv
  OBVIOUS
<1>0. 0 \in 0..MaxPairs /\ 0 \in 0..MaxCrashes
  BY CaAssumption
<1>1. TypeOK
  BY <1>0 DEF Init, TypeOK, Contents, Points
<1>2. ImportedIsServed /\ FilesExist
  BY DEF Init, ImportedIsServed, FilesExist, Writing
<1>3. OneGenerates /\ FilesFollow /\ KeyIsLast
  BY ContentsApart DEF Init, OneGenerates, FilesFollow, KeyIsLast, Generating, Writing
<1>4. QED
  BY <1>1, <1>2, <1>3 DEF CaInv

-----------------------------------------------------------------------------
(* The types, and what exists whether or not calls raced.                  *)
Basics == TypeOK /\ FilesExist

LEMMA LoadKeepsBasics ==
  ASSUME Basics, NEW c \in Callers, Load(c)
  PROVE  Basics'
<1> USE ContentsApart DEF Basics, TypeOK, FilesExist, Contents, Points,
        Generating, Writing, Goto, GoGenerate
<1>1. CASE CheckCrt(c)
  BY <1>1 DEF CheckCrt
<1>2. CASE CheckKey(c)
  BY <1>2 DEF CheckKey
<1>3. CASE ReadCrt(c)
  BY <1>3 DEF ReadCrt
<1>4. CASE ReadKey(c)
  BY <1>4 DEF ReadKey
<1>5. QED
  BY <1>1, <1>2, <1>3, <1>4 DEF Load

LEMMA MakeKeepsBasics ==
  ASSUME Basics, NEW c \in Callers, Make(c)
  PROVE  Basics'
<1> USE ContentsApart DEF Basics, TypeOK, FilesExist, Contents, Points,
        Generating, Writing, Goto
<1>1. CASE Generate(c)
  <2>1. pairs + 1 \in Pairs /\ pairs + 1 \in 0..MaxPairs
    BY <1>1, CaAssumption DEF Generate, Pairs
  <2>2. QED
    BY <1>1, <2>1 DEF Generate
<1>2. CASE WriteCrt(c)
  BY <1>2 DEF WriteCrt
<1>3. CASE WriteKey(c)
  BY <1>3 DEF WriteKey
<1>4. CASE GenerateErr(c)
  BY <1>4 DEF GenerateErr
<1>5. QED
  BY <1>1, <1>2, <1>3, <1>4 DEF Make

LEMMA StepKeepsBasics == Basics /\ [Next]_vars => Basics'
<1> SUFFICES ASSUME Basics, [Next]_vars PROVE Basics'
  OBVIOUS
<1> USE DEF Basics, TypeOK, FilesExist, Points, Generating, Writing, Goto
<1>1. ASSUME NEW c \in Callers, SaveCert(c) \/ Release(c) PROVE Basics'
  BY <1>1 DEF SaveCert, Release
<1>2. CASE Crash
  <2>1. crashes' \in 0..MaxCrashes
    BY <1>2, CaAssumption DEF Crash
  <2>2. QED
    BY <1>2, <2>1 DEF Crash
<1>3. CASE UNCHANGED vars
  BY <1>3 DEF vars
<1>4. QED
  BY <1>1, <1>2, <1>3, LoadKeepsBasics, MakeKeepsBasics DEF Next

-----------------------------------------------------------------------------
(* The files, as long as no two calls were generating at the same time.    *)
Files == OneGenerates /\ FilesFollow /\ KeyIsLast /\ ImportedIsServed

(* raced only ever rises.                                                  *)
LEMMA RacedStays == TypeOK /\ [Next]_vars /\ ~raced' => ~raced
  BY DEF Next, Load, Make, CheckCrt, CheckKey, GoGenerate, ReadCrt, ReadKey,
         Generate, WriteCrt, WriteKey, GenerateErr, SaveCert, Release, Crash,
         vars, TypeOK

(* A call that starts to generate without a race finds no other at it.     *)
LEMMA AloneGenerates ==
  ASSUME ~raced', pc \in [Callers -> Points], NEW c \in Callers, GoGenerate(c)
  PROVE  /\ pc' = [pc EXCEPT ![c] = "generate"]
         /\ \A d \in Callers \ {c} : pc[d] \notin Generating
         /\ \A d \in Callers \ {c} : pc'[d] = pc[d]
         /\ pc'[c] = "generate"
  BY DEF GoGenerate, Goto

LEMMA LoadKeepsFiles ==
  ASSUME Basics, Files, ~raced, ~raced', NEW c \in Callers, Load(c)
  PROVE  Files'
<1> USE ContentsApart DEF Basics, TypeOK, FilesExist, Contents, Points,
        Generating, Writing, Goto, Files, OneGenerates, FilesFollow,
        KeyIsLast, ImportedIsServed, Agrees
<1>1. CASE CheckCrt(c)
  <2>1. CASE crt = Absent
    <3>1. GoGenerate(c) /\ UNCHANGED <<crt, key, held, saved>>
      BY <1>1, <2>1 DEF CheckCrt
    <3>2. key = Absent
      BY <2>1
    <3>3. QED
      BY <1>1, <3>1, <3>2, AloneGenerates
  <2>2. CASE crt # Absent
    BY <1>1, <2>2 DEF CheckCrt
  <2>3. QED
    BY <2>1, <2>2
<1>2. CASE CheckKey(c)
  <2>1. CASE key = Absent
    BY <1>2, <2>1, AloneGenerates DEF CheckKey
  <2>2. CASE key # Absent
    BY <1>2, <2>2 DEF CheckKey
  <2>3. QED
    BY <2>1, <2>2
<1>3. CASE ReadCrt(c)
  BY <1>3 DEF ReadCrt
<1>4. CASE ReadKey(c)
  BY <1>4 DEF ReadKey
<1>5. QED
  BY <1>1, <1>2, <1>3, <1>4 DEF Load

LEMMA MakeKeepsFiles ==
  ASSUME Basics, Files, ~raced, ~raced', NEW c \in Callers, Make(c)
  PROVE  Files'
<1> USE ContentsApart DEF Basics, TypeOK, FilesExist, Contents, Points,
        Generating, Writing, Goto, Files, OneGenerates, FilesFollow,
        KeyIsLast, ImportedIsServed, Agrees
<1>1. CASE Generate(c)
  <2>1. pairs + 1 \in Pairs
    BY <1>1, CaAssumption DEF Generate, Pairs
  <2>2. QED
    BY <1>1, <2>1 DEF Generate
<1>2. CASE WriteCrt(c)
  BY <1>2 DEF WriteCrt
<1>3. CASE WriteKey(c)
  BY <1>3 DEF WriteKey
<1>4. CASE GenerateErr(c)
  BY <1>4 DEF GenerateErr
<1>5. QED
  BY <1>1, <1>2, <1>3, <1>4 DEF Make

LEMMA StepKeepsFiles ==
  ASSUME Basics, Files, ~raced, ~raced', [Next]_vars
  PROVE  Files'
<1> USE DEF Basics, TypeOK, Points, Generating, Writing, Goto, Files,
        OneGenerates, FilesFollow, KeyIsLast, ImportedIsServed, Agrees
<1>1. ASSUME NEW c \in Callers, SaveCert(c) \/ Release(c) PROVE Files'
  BY <1>1 DEF SaveCert, Release
<1>2. CASE Crash
  BY <1>2 DEF Crash
<1>3. CASE UNCHANGED vars
  BY <1>3 DEF vars
<1>4. QED
  BY <1>1, <1>2, <1>3, LoadKeepsFiles, MakeKeepsFiles DEF Next

LEMMA StepKeepsCa == CaInv /\ [Next]_vars => CaInv'
<1> SUFFICES ASSUME CaInv, [Next]_vars PROVE CaInv'
  OBVIOUS
<1>1. Basics'
  BY StepKeepsBasics DEF CaInv, Basics
<1>2. CASE raced'
  BY <1>1, <1>2 DEF CaInv, Basics, ImportedIsServed
<1>3. CASE ~raced'
  <2>1. ~raced
    BY <1>3, RacedStays DEF CaInv
  <2>2. Files'
    BY <1>3, <2>1, StepKeepsFiles DEF CaInv, Basics, Files
  <2>3. QED
    BY <1>1, <2>2 DEF CaInv, Basics, Files
<1>4. QED
  BY <1>2, <1>3

THEOREM CaInvariant == Spec => []CaInv
<1>1. QED
  BY InitCa, StepKeepsCa, PTL DEF Spec

(* What the user imported is what the proxy signs with (ca_cert.rs:11-42). *)
THEOREM ImportStaysGood == Spec => []ImportedIsServed
<1>1. CaInv => ImportedIsServed
  BY DEF CaInv
<1>2. QED
  BY <1>1, CaInvariant, PTL

-----------------------------------------------------------------------------
(* A complete CA excludes a call that is generating, and CheckCrt and      *)
(* CheckKey from starting one.                                             *)
LEMMA CompleteHasNoWriter ==
  ASSUME CaInv, ~raced, crt \in Pairs, key \in Pairs, NEW c \in Callers
  PROVE  pc[c] \notin Generating
  BY ContentsApart DEF CaInv, FilesFollow, Generating, Writing

LEMMA StepKeepsComplete ==
  ASSUME CaInv, [Next]_vars, crt \in Pairs, key \in Pairs, ~raced'
  PROVE  UNCHANGED <<crt, key>>
<1>1. ~raced
  BY RacedStays DEF CaInv
<1>2. ASSUME NEW c \in Callers, Make(c) PROVE FALSE
  BY <1>1, <1>2, CompleteHasNoWriter
     DEF Make, Generate, WriteCrt, WriteKey, GenerateErr, Generating, Writing
<1>3. QED
  BY <1>2 DEF Next, Load, CheckCrt, CheckKey, ReadCrt, ReadKey, SaveCert,
              Release, Crash, vars

(* A complete CA is never replaced (ca_cert.rs:11).                        *)
THEOREM CompleteCaStays == Spec => CompleteStays
<1>1. CaInv /\ [Next]_vars
        => [(crt \in Pairs /\ key \in Pairs /\ ~raced') => UNCHANGED <<crt, key>>]_vars
  BY StepKeepsComplete
<1>2. QED
  BY <1>1, CaInvariant, PTL DEF Spec, CompleteStays

(* A call that has read ca.crt holds the certificate that is still there:  *)
(* it saw ca.key first, and that is written last.                          *)
CrtIsRead ==
  ~raced => \A c \in Callers :
    pc[c] = "read_key" => read_crt[c] \in Pairs /\ read_crt[c] = crt

LEMMA StepKeepsRead ==
  ASSUME CaInv, CrtIsRead, [Next]_vars
  PROVE  CrtIsRead'
<1> SUFFICES ASSUME ~raced', NEW c \in Callers, pc'[c] = "read_key"
             PROVE  read_crt'[c] \in Pairs /\ read_crt'[c] = crt'
  BY DEF CrtIsRead
<1> USE DEF CaInv, TypeOK
<1>1. ~raced
  BY RacedStays
<1>2. ASSUME NEW d \in Callers, ReadCrt(d) PROVE read_crt'[c] \in Pairs /\ read_crt'[c] = crt'
  BY <1>1, <1>2 DEF ReadCrt, Goto, FilesExist, KeyIsLast, CrtIsRead
<1>3. CASE pc[c] = "read_key" /\ UNCHANGED read_crt
  <2>1. key # Absent
    BY <1>3 DEF FilesExist
  <2>2. UNCHANGED crt
    <3>1. ASSUME NEW d \in Callers, WriteCrt(d) PROVE FALSE
      BY <1>1, <2>1, <3>1 DEF WriteCrt, FilesFollow, Generating, Writing
    <3>2. QED
      BY <3>1 DEF Next, Load, Make, CheckCrt, CheckKey, ReadCrt, ReadKey, Generate,
         WriteKey, GenerateErr, SaveCert, Release, Crash, vars
  <2>3. QED
    BY <1>1, <1>3, <2>2 DEF CrtIsRead
<1>4. CASE ~(pc[c] = "read_key" /\ UNCHANGED read_crt)
  <2>1. \E d \in Callers : ReadCrt(d)
    BY <1>4 DEF Next, Load, Make, CheckCrt, CheckKey, GoGenerate, Goto, ReadKey, Generate,
       WriteCrt, WriteKey, GenerateErr, SaveCert, Release, Crash, vars
  <2>2. QED
    BY <1>2, <2>1
<1>5. QED
  BY <1>3, <1>4

(* A complete CA is loaded by every call (ca_cert.rs:10-20).               *)
THEOREM CompleteIsLoaded == Spec => OnlyTornKey
<1> DEFINE Torn ==
      \A c \in Callers :
        (~raced /\ pc[c] # "unreadable" /\ pc'[c] = "unreadable") => key = Empty
<1>1. Init => CrtIsRead
  BY DEF Init, CrtIsRead
<1>2. CaInv /\ CrtIsRead /\ [Next]_vars => [Torn]_vars
  <2> SUFFICES ASSUME CaInv, CrtIsRead, Next, NEW c \in Callers,
                      ~raced, pc[c] # "unreadable", pc'[c] = "unreadable"
               PROVE  key = Empty
    OBVIOUS
  <2> USE DEF CaInv, TypeOK
  <2>1. ReadKey(c)
    BY DEF Next, Load, Make, CheckCrt, CheckKey, GoGenerate, Goto, ReadCrt, ReadKey,
       Generate, WriteCrt, WriteKey, GenerateErr, SaveCert, Release, Crash
  <2>2. read_crt[c] # Empty
    BY <2>1, ContentsApart DEF ReadKey, CrtIsRead
  <2>3. QED
    BY <2>1, <2>2 DEF ReadKey, Goto
<1>3. CaInv /\ CrtIsRead /\ [Next]_vars => CrtIsRead'
  BY StepKeepsRead
<1>4. QED
  BY <1>1, <1>2, <1>3, CaInvariant, PTL DEF Spec, OnlyTornKey

-----------------------------------------------------------------------------
(* The certificate store of the machine.                                   *)

(* Installing and removing certificates leaves the CA alone: CaTrust is    *)
(* CaStore with the machine's store beside it, so that everything above    *)
(* holds of it as well.                                                    *)
THEOREM TrustKeepsCa == TrustSpec => Spec
<1>1. TrustInit => Init
  BY DEF TrustInit
<1>2. [TrustNext]_trustVars => [Next]_vars
  BY DEF TrustNext, trustVars, InstallCaCertificate, UninstallCaCertificate
<1>3. QED
  BY <1>1, <1>2, PTL DEF TrustSpec, Spec

(* A step of the CA leaves a complete one as it is; an install adds the    *)
(* certificate that is there already, or the first.                        *)
LEMMA StepKeepsInstalled ==
  ASSUME CaInv, CaInv', InstalledIsServed, [TrustNext]_trustVars
  PROVE  InstalledIsServed'
<1> SUFFICES ASSUME ~raced', ~early', roots' # {}
             PROVE  roots' = {crt'} /\ Agrees(crt)'
  BY DEF InstalledIsServed, IsCertInstalled, CaInv, ImportedIsServed, Agrees
<1>1. CASE Next /\ UNCHANGED <<roots, early>>
  <2>1. ~raced
    BY <1>1, RacedStays DEF CaInv
  <2>2. roots = {crt} /\ Agrees(crt)
    BY <1>1, <2>1 DEF InstalledIsServed, IsCertInstalled
  <2>3. UNCHANGED <<crt, key>>
    BY <1>1, <2>2, StepKeepsComplete DEF Agrees
  <2>4. QED
    BY <1>1, <2>2, <2>3 DEF Agrees
<1>2. CASE InstallCaCertificate
  <2>1. ~early /\ ~raced /\ Agrees(crt) /\ UNCHANGED <<crt, key>>
    BY <1>2 DEF InstallCaCertificate, Agrees, vars
  <2>2. roots = {} \/ roots = {crt}
    BY <2>1 DEF InstalledIsServed, IsCertInstalled
  <2>3. roots' = {crt}
    BY <1>2, <2>2 DEF InstallCaCertificate
  <2>4. QED
    BY <2>1, <2>3 DEF Agrees
<1>3. CASE UninstallCaCertificate
  <2>1. /\ roots # {} /\ roots' \subseteq roots
        /\ ~early /\ ~raced /\ UNCHANGED <<crt, key>>
    BY <1>3 DEF UninstallCaCertificate, vars
  <2>2. roots = {crt} /\ Agrees(crt)
    BY <2>1 DEF InstalledIsServed, IsCertInstalled
  <2>3. QED
    BY <2>1, <2>2 DEF Agrees
<1>4. CASE UNCHANGED trustVars
  BY <1>4 DEF trustVars, vars, InstalledIsServed, IsCertInstalled, Agrees
<1>5. QED
  BY <1>1, <1>2, <1>3, <1>4 DEF TrustNext

(* What is installed on the machine is what the program signs with, and    *)
(* the answer of is_cert_installed is about it (ca_cert.rs:81-188).        *)
THEOREM InstalledStaysGood == TrustSpec => []InstalledIsServed
<1>1. TrustInit => InstalledIsServed
  BY DEF TrustInit, InstalledIsServed, IsCertInstalled
<1>2. TrustSpec => []CaInv
  BY TrustKeepsCa, CaInvariant, PTL
<1>3. CaInv /\ CaInv' /\ InstalledIsServed /\ [TrustNext]_trustVars
        => InstalledIsServed'
  BY StepKeepsInstalled
<1>4. QED
  BY <1>1, <1>2, <1>3, PTL DEF TrustSpec

(* What is in the machine's store was generated by the program: an install *)
(* reads ca.crt and never takes a file that holds no certificate.          *)
THEOREM TrustTypes == TrustSpec => [](TypeOK /\ TrustTypeOK)
<1>1. TrustInit => TrustTypeOK
  BY DEF TrustInit, TrustTypeOK
<1>2. TrustTypeOK /\ [TrustNext]_trustVars => TrustTypeOK'
  BY DEF TrustTypeOK, TrustNext, trustVars, InstallCaCertificate,
         UninstallCaCertificate
<1>3. TrustSpec => []TrustTypeOK
  BY <1>1, <1>2, PTL DEF TrustSpec
<1>4. TrustSpec => []CaInv
  BY TrustKeepsCa, CaInvariant, PTL
<1>5. CaInv => TypeOK
  BY DEF CaInv
<1>6. QED
  BY <1>3, <1>4, <1>5, PTL
=============================================================================
