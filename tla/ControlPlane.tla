---------------------------- MODULE ControlPlane ----------------------------
(***************************************************************************)
(* The private control root and its publication: every file of the package *)
(* is staged inside the private root and then linked into the public mount *)
(* one after the other, the commit marker last.  The public mount is       *)
(* shared with the sandbox; links that were made before a failure stay.    *)
(***************************************************************************)
EXTENDS Naturals

CONSTANT Names       \* the file names a package may hold, the marker included

VARIABLES
    root,       \* the private root exists
    staged,     \* the private publication stage exists
    public,     \* the public mount: file name -> content
    pub         \* the publication under way: files still to link, and the package

planeVars == <<root, staged, public, pub>>

Marker == "agent-run.json"

NoFiles == [n \in {} |-> "none"]

(* what a process of the sandbox wrote, under whatever name                *)
Foreign == [kind |-> "foreign"]

PubResting == [pc |-> "idle", files |-> NoFiles, left |-> {}]

InitPlane ==
    /\ root = FALSE /\ staged = FALSE
    /\ public \in {NoFiles, [n \in {"stray"} |-> Foreign]}
    /\ pub = PubResting

(* create: the mount must be empty and the root new; its receipt is        *)
(* written or the root is removed again                                    *)
CreatePlane ==
    /\ root' = (public = NoFiles)
    /\ UNCHANGED <<staged, public, pub>>

PreDispatchOk == root /\ public = NoFiles

(* publish answers at once, or stages the package and starts linking; what *)
(* was staged before a failed write stays                                  *)
PublishPlane(files) ==
    /\ pub.pc = "idle"
    /\ \/ /\ root /\ Marker \in DOMAIN public
          /\ pub' = [PubResting EXCEPT !.pc = IF public = files THEN "ok" ELSE "failed"]
          /\ UNCHANGED staged
       \/ /\ ~root \/ (Marker \notin DOMAIN public /\ (public # NoFiles \/ staged))
          /\ pub' = [PubResting EXCEPT !.pc = "failed"]
          /\ UNCHANGED staged
       \/ /\ root /\ public = NoFiles /\ ~staged
          /\ staged' = TRUE
          /\ pub' = [pc |-> "linking", files |-> files, left |-> DOMAIN files]
    /\ UNCHANGED <<root, public>>

StageError ==
    /\ pub.pc = "idle" /\ root /\ public = NoFiles /\ ~staged
    /\ staged' = TRUE
    /\ pub' = [PubResting EXCEPT !.pc = "failed"]
    /\ UNCHANGED <<root, public>>

(* the marker may be linked while others wait                              *)
NextLinkAny(left) == left

NextLink(left) == IF left = {Marker} THEN left ELSE left \ {Marker}

(* link does not replace a file that is already there                      *)
LinkFile(n) ==
    /\ pub.pc = "linking" /\ n \in NextLink(pub.left)
    /\ IF n \in DOMAIN public
       THEN pub' = [PubResting EXCEPT !.pc = "failed"] /\ UNCHANGED public
       ELSE /\ public' = [x \in DOMAIN public \cup {n} |-> IF x = n THEN pub.files[n] ELSE public[x]]
            /\ pub' = IF pub.left = {n} THEN [PubResting EXCEPT !.pc = "ok"] ELSE [pub EXCEPT !.left = @ \ {n}]
    /\ UNCHANGED <<root, staged>>

LinkError ==
    /\ pub.pc = "linking"
    /\ pub' = [PubResting EXCEPT !.pc = "failed"]
    /\ UNCHANGED <<root, staged, public>>

(* the tree may be removed in part                                         *)
CleanPlane ==
    /\ root' = FALSE /\ staged' = FALSE
    /\ pub' = PubResting
    /\ UNCHANGED public

(* a process of the sandbox creates a file of its own in the mount         *)
Stray(n) ==
    /\ n \notin DOMAIN public
    /\ public' = [x \in DOMAIN public \cup {n} |-> IF x = n THEN Foreign ELSE public[x]]
    /\ UNCHANGED <<root, staged, pub>>
=============================================================================
