------------------------------ MODULE CaStore ------------------------------
(***************************************************************************)
(* The CA of the program: the files ca.crt and ca.key in its working       *)
(* directory, and generate_ca_certificate (ca_cert.rs), which loads them   *)
(* or makes them.  Two parties call it and nothing serialises them: entry  *)
(* on the thread of each run of the proxy, and the task spawned by the     *)
(* "install" button (componts.rs), which lets the user save the            *)
(* certificate to import it into a browser.  Closing the main window ends  *)
(* the process at once, whatever they are doing; the files stay.           *)
(*                                                                         *)
(* A key pair is a number, a file holds the certificate or the key of one, *)
(* or nothing.  fs::write is two steps, truncate and fill; of two writers  *)
(* that overlap the last to fill wins.  A file is never removed.           *)
(***************************************************************************)
EXTENDS Naturals, FiniteSets

CONSTANTS
  Callers,     \* calls that may be under way at a time
  Absent,      \* content of a file that does not exist
  Empty,       \* content of one that is there with nothing usable in it
  MaxPairs,    \* bound: key pairs generated
  MaxCrashes   \* bound: how often the program is closed and started again

ASSUME CaAssumption ==
  /\ MaxPairs \in Nat /\ MaxCrashes \in Nat
  /\ Absent # Empty /\ Absent \notin Nat /\ Empty \notin Nat

VARIABLES
  crt, key,  \* contents of the files
  pc,        \* where each call is
  held,      \* the pair of its CertifiedKey
  read_crt,  \* what it read from ca.crt
  saved,     \* the pair whose certificate the user saved last, 0 for none
  pairs,     \* key pairs generated so far
  crashes,
  raced      \* history: two calls were once generating at the same time

vars == <<crt, key, pc, held, read_crt, saved, pairs, crashes, raced>>

-----------------------------------------------------------------------------
Pairs == 1..MaxPairs
Contents == {Absent, Empty} \cup Pairs

(* The steps of a call that has decided to make a new CA.                  *)
Writing == {"truncate_crt", "fill_crt", "truncate_key", "fill_key"}
Generating == {"generate"} \cup Writing
Points == {"idle", "check_key", "read_crt", "read_key", "ready", "failed",
           "unreadable"} \cup Generating

TypeOK ==
  /\ crt \in Contents /\ key \in Contents
  /\ pc \in [Callers -> Points]
  /\ held \in [Callers -> Pairs \cup {0}]
  /\ read_crt \in [Callers -> Contents]
  /\ saved \in Pairs \cup {0}
  /\ pairs \in 0..MaxPairs /\ crashes \in 0..MaxCrashes
  /\ raced \in BOOLEAN

Init ==
  /\ crt = Absent /\ key = Absent
  /\ pc = [c \in Callers |-> "idle"]
  /\ held = [c \in Callers |-> 0]
  /\ read_crt = [c \in Callers |-> Absent]
  /\ saved = 0 /\ pairs = 0 /\ crashes = 0
  /\ raced = FALSE

Goto(c, point) == pc' = [pc EXCEPT ![c] = point]

(* The call goes on to generate; another one may be at it already.         *)
GoGenerate(c) ==
  /\ Goto(c, "generate")
  /\ raced' = (raced \/ \E d \in Callers \ {c} : pc[d] \in Generating)

-----------------------------------------------------------------------------
(* Variant of CheckCrt: a new CA is made by every call.                    *)
CheckCrtNever(c) ==
  /\ pc[c] = "idle"
  /\ GoGenerate(c)
  /\ UNCHANGED <<crt, key, held, read_crt, saved, pairs, crashes>>

(* Both files must exist to be loaded; the second test is only made when   *)
(* the first succeeds.                                                     *)
CheckCrt(c) ==
  /\ pc[c] = "idle"
  /\ IF crt = Absent THEN GoGenerate(c) ELSE Goto(c, "check_key") /\ UNCHANGED raced
  /\ UNCHANGED <<crt, key, held, read_crt, saved, pairs, crashes>>

(* Variant of CheckKey: a certificate without a key is given a new key.    *)
CheckKeyAlone(c) ==
  /\ pc[c] = "check_key"
  /\ \/ /\ key = Absent /\ pairs < MaxPairs
        /\ pairs' = pairs + 1
        /\ held' = [held EXCEPT ![c] = pairs + 1]
        /\ Goto(c, "truncate_key")
     \/ /\ key # Absent /\ Goto(c, "read_crt")
        /\ UNCHANGED <<held, pairs>>
  /\ UNCHANGED <<crt, key, read_crt, saved, crashes, raced>>

CheckKey(c) ==
  /\ pc[c] = "check_key"
  /\ IF key = Absent THEN GoGenerate(c) ELSE Goto(c, "read_crt") /\ UNCHANGED raced
  /\ UNCHANGED <<crt, key, held, read_crt, saved, pairs, crashes>>

ReadCrt(c) ==
  /\ pc[c] = "read_crt"
  /\ read_crt' = [read_crt EXCEPT ![c] = crt]
  /\ Goto(c, "read_key")
  /\ UNCHANGED <<crt, key, held, saved, pairs, crashes, raced>>

(* An empty certificate is an error, an empty key a panic.  Otherwise the  *)
(* loaded certificate is the one of ca.crt signed again with the key of    *)
(* ca.key: the call never notices that they are of different pairs.        *)
ReadKey(c) ==
  /\ pc[c] = "read_key"
  /\ IF read_crt[c] = Empty \/ key = Empty
     THEN Goto(c, "unreadable") /\ UNCHANGED held
     ELSE Goto(c, "ready") /\ held' = [held EXCEPT ![c] = key]
  /\ UNCHANGED <<crt, key, read_crt, saved, pairs, crashes, raced>>

Generate(c) ==
  /\ pc[c] = "generate"
  /\ pairs < MaxPairs
  /\ pairs' = pairs + 1
  /\ held' = [held EXCEPT ![c] = pairs + 1]
  /\ Goto(c, "truncate_crt")
  /\ UNCHANGED <<crt, key, read_crt, saved, crashes, raced>>

(* fs::write("ca.crt"), then fs::write("ca.key").                          *)
WriteCrt(c) ==
  /\ \/ pc[c] = "truncate_crt" /\ crt' = Empty /\ Goto(c, "fill_crt")
     \/ pc[c] = "fill_crt" /\ crt' = held[c] /\ Goto(c, "truncate_key")
  /\ UNCHANGED <<key, held, read_crt, saved, pairs, crashes, raced>>

WriteKey(c) ==
  /\ \/ pc[c] = "truncate_key" /\ key' = Empty /\ Goto(c, "fill_key")
     \/ pc[c] = "fill_key" /\ key' = held[c] /\ Goto(c, "ready")
  /\ UNCHANGED <<crt, held, read_crt, saved, pairs, crashes, raced>>

(* An error of the generation or of a write, returned with `?`.  A write   *)
(* that fails after it truncated leaves the file empty.                    *)
GenerateErr(c) ==
  /\ pc[c] \in Generating
  /\ Goto(c, "failed")
  /\ UNCHANGED <<crt, key, held, read_crt, saved, pairs, crashes, raced>>

-----------------------------------------------------------------------------
(* install_cert: the certificate of the CertifiedKey goes where the user   *)
(* wants it, and from there into a browser.                                *)
SaveCert(c) ==
  /\ pc[c] = "ready"
  /\ saved' = held[c]
  /\ Goto(c, "idle")
  /\ UNCHANGED <<crt, key, held, read_crt, pairs, crashes, raced>>

(* The run ends, the user cancels, or the call had failed; another call    *)
(* may take its place.                                                     *)
Release(c) ==
  /\ pc[c] \in {"ready", "failed", "unreadable"}
  /\ Goto(c, "idle")
  /\ UNCHANGED <<crt, key, held, read_crt, saved, pairs, crashes, raced>>

(* close_windows calls exit(0); the program is started again later.        *)
Crash ==
  /\ crashes < MaxCrashes
  /\ crashes' = crashes + 1
  /\ pc' = [c \in Callers |-> "idle"]
  /\ UNCHANGED <<crt, key, held, read_crt, saved, pairs, raced>>

Load(c) == CheckCrt(c) \/ CheckKey(c) \/ ReadCrt(c) \/ ReadKey(c)
Make(c) == Generate(c) \/ WriteCrt(c) \/ WriteKey(c) \/ GenerateErr(c)

Next == Crash \/ \E c \in Callers : Load(c) \/ Make(c) \/ SaveCert(c) \/ Release(c)

Spec == Init /\ [][Next]_vars

-----------------------------------------------------------------------------
(* As long as no two calls were generating at once, the program signs with *)
(* the pair that is on disk, certificate and key, and the certificate the  *)
(* user imported is that one - across crashes between any two writes       *)
(* (ca_cert.rs:11-42, componts.rs:331-342).                                *)
Agrees(p) == p \in Pairs /\ crt = p /\ key = p

ImportedIsServed ==
  ~raced => /\ \A c \in Callers : pc[c] = "ready" => Agrees(held[c])
            /\ saved # 0 => Agrees(saved)

(* Under the same condition a complete CA is never replaced, not even in   *)
(* part: what was imported once stays good (ca_cert.rs:11).                *)
CompleteStays ==
  [][(crt \in Pairs /\ key \in Pairs /\ ~raced') => UNCHANGED <<crt, key>>]_vars

(* What makes the two inductive: a single call generates, and the files    *)
(* are as far as its step says; the key is the last of the two to appear.  *)
OneGenerates ==
  \A c, d \in Callers : pc[c] \in Generating /\ pc[d] \in Generating => c = d

FilesFollow ==
  \A c \in Callers :
    /\ pc[c] \in Generating \ {"fill_key"} => key = Absent
    /\ pc[c] = "fill_key" => key = Empty
    /\ pc[c] \in {"truncate_key", "fill_key"} => crt = held[c]

(* Whatever was raced: a writer has a pair, a file seen to exist still does.*)
FilesExist ==
  \A c \in Callers :
    /\ pc[c] \in Writing => held[c] \in Pairs
    /\ pc[c] = "check_key" => crt # Absent
    /\ pc[c] \in {"read_crt", "read_key"} => crt # Absent /\ key # Absent

KeyIsLast == /\ key # Absent => crt \in Pairs
             /\ key \in Pairs => crt = key

CaInv ==
  /\ TypeOK
  /\ FilesExist
  /\ ImportedIsServed
  /\ ~raced => OneGenerates /\ FilesFollow /\ KeyIsLast

(* What cannot be loaded is a key that is empty as it is read, and nothing *)
(* else, as long as no two calls were generating at once: a complete CA is *)
(* loaded by every call (ca_cert.rs:11-20).                                *)
OnlyTornKey ==
  [][\A c \in Callers :
       (~raced /\ pc[c] # "unreadable" /\ pc'[c] = "unreadable") => key = Empty]_vars

(* "The certificate exists already: load it" (ca_cert.rs:10): once both    *)
(* files exist a call does load them.                                      *)
ExistingIsLoaded == \A c \in Callers : pc[c] # "unreadable"
=============================================================================
