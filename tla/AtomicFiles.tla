---------------------------- MODULE AtomicFiles ----------------------------
(***************************************************************************)
(* What a file of a session promises to the calls that change it.  An      *)
(* update that meets no other takes effect at once and whole, or not at    *)
(* all, or, when its writing is cut short, leaves the beginning of what it *)
(* was to write.  It is an update of what the file says; of one that could *)
(* not be read it is an update of an empty file, and what the file said is *)
(* lost.  Of updates that overlap nothing is promised.                     *)
(***************************************************************************)
CONSTANTS
  Files,
  Ops,                 (* the updates of all files                          *)
  FileOf(_),           (* the file an update is of                          *)
  Allowed(_, _),       (* whether a content can be updated so, or it is an  *)
                       (* error                                             *)
  Changed(_, _),       (* the content after an update of a content          *)
  Beginnings(_, _),    (* the contents its writing passes through           *)
  Empty                (* the content of a file without bytes               *)

VARIABLES
  content,             (* what each file says                               *)
  disturbed            (* the files on which updates overlap                *)

fileVars == <<content, disturbed>>

Readings(f) == {content[f], Empty[f]}

Update(op) ==
  LET f == FileOf(op) IN
  /\ f \notin disturbed
  /\ \E read \in Readings(f) :
       /\ Allowed(op, read)
       /\ content' = [content EXCEPT ![f] = Changed(op, read)]
  /\ UNCHANGED disturbed

(* A full disk, or the end of the process, between the truncation and the  *)
(* end of the write.                                                       *)
CutShort(op) ==
  LET f == FileOf(op) IN
  /\ f \notin disturbed
  /\ \E read \in Readings(f) :
       /\ Allowed(op, read)
       /\ \E part \in Beginnings(op, read) : content' = [content EXCEPT ![f] = part]
  /\ UNCHANGED disturbed

(* The end of the process, which may cut off an update of each file and    *)
(* ends what overlapped.                                                   *)
EndOfTheProcess ==
  /\ disturbed' = {}
  /\ \A f \in Files \ disturbed : content'[f] \in {content[f], Empty[f]}

Overlap(f) ==
  /\ f \in disturbed \cup disturbed'
  /\ disturbed' \in {disturbed \cup {f}, disturbed \ {f}}
  /\ \A g \in Files \ {f} : content'[g] = content[g]

FilesNext ==
  \/ EndOfTheProcess
  \/ \E f \in Files : Overlap(f)
  \/ \E op \in Ops : Update(op) \/ CutShort(op)

FilesSpec == disturbed = {} /\ [][FilesNext]_fileVars
=============================================================================
