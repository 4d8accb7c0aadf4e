------------------------------ MODULE CaTrust ------------------------------
(***************************************************************************)
(* The machine's certificate store over CaStore: install_ca_certificate,   *)
(* is_cert_installed and uninstall_ca_certificate (ca_cert.rs), in their   *)
(* Windows form, the only one that compiles (ca_cert.rs:6).  Nothing in    *)
(* the repository calls them but their names are public; a program built   *)
(* on it may call them between any two steps of CaStore.                   *)
(*                                                                         *)
(* certutil is external: it adds the certificate a file holds and fails on *)
(* one that holds none.  It finds certificates by name, and every CA of    *)
(* the program has the same.                                               *)
(***************************************************************************)
EXTENDS CaStore

VARIABLES
  roots,  \* pairs whose certificate is in the ROOT store
  early   \* history: a certificate was once installed before its key was on disk

trustVars == <<vars, roots, early>>

TrustTypeOK == roots \subseteq Pairs /\ early \in BOOLEAN

TrustInit == Init /\ roots = {} /\ early = FALSE

(* Variant of InstallCaCertificate: what is installed is the certificate a *)
(* call has generated, before its files are written.                       *)
InstallGenerated ==
  /\ \E c \in Callers :
       pc[c] \in {"truncate_crt", "fill_crt"} /\ roots' = roots \cup {held[c]}
  /\ UNCHANGED <<vars, early>>

(* install_ca_certificate returns Ok.  It asks for ca.crt alone: the key   *)
(* may not be there yet, or not be the certificate's.                      *)
InstallCaCertificate ==
  /\ crt \in Pairs
  /\ roots' = roots \cup {crt}
  /\ early' = (early \/ key # crt)
  /\ UNCHANGED vars

(* uninstall_ca_certificate returns Ok: what the name matched is deleted,  *)
(* of which certutil may leave some.                                       *)
UninstallCaCertificate ==
  /\ roots # {}
  /\ \E gone \in SUBSET roots \ {{}} : roots' = roots \ gone
  /\ UNCHANGED <<vars, early>>

(* is_cert_installed, where certutil speaks Chinese: any CA of that name.  *)
IsCertInstalled == roots # {}

TrustNext ==
  \/ Next /\ UNCHANGED <<roots, early>>
  \/ InstallCaCertificate
  \/ UninstallCaCertificate

TrustSpec == TrustInit /\ [][TrustNext]_trustVars

-----------------------------------------------------------------------------
(* Whatever is installed is the CA the program signs with, and a positive  *)
(* answer of is_cert_installed, which goes by the name, is about that one  *)
(* - unless two calls once generated at a time, or a certificate was       *)
(* installed whose key was not on disk: a crash then makes the program     *)
(* start over with another (ca_cert.rs:85,182).                            *)
InstalledIsServed ==
  (~raced /\ ~early /\ IsCertInstalled) =>
    /\ roots = {crt}
    /\ Agrees(crt)
    /\ \A c \in Callers : pc[c] = "ready" => held[c] \in roots
    /\ saved # 0 => saved \in roots
=============================================================================
