-------------------------------- MODULE Watch --------------------------------
(***************************************************************************)
(* `status --watch' beside the commands that write attestation files.  It  *)
(* keeps a signature of modification times, looks every two seconds        *)
(* whether it has changed, and prints the status again if it has.          *)
(*                                                                         *)
(* A signature covers directories and the graph source, not the            *)
(* attestation files: the directory's time changes when a file is created, *)
(* replaced by a rename or removed, which is when the claim's inode number *)
(* grows, and does not when a file is opened and filled in place.  The     *)
(* temporary files of a rename only cause a print more and are left out.   *)
(* The variable `inPlace` is not in the code: it recalls the files filled  *)
(* in place after the watch has read them.                                 *)
(***************************************************************************)
EXTENDS Attestations

CONSTANT GraphNamed  \* config.json names a graph_source

ASSUME GraphNamedAssumption == GraphNamed \in BOOLEAN

VARIABLES
  graphTime, \* counts the changes of the graph that move a watched time
  wpc,       \* where the watch stands
  lastSig,   \* the signature it compares with
  listed,    \* claims whose files it has listed and not read yet
  reading,   \* what this print has found
  shown,     \* what the last print has shown
  inPlace    \* claims whose file was filled in place since this print read it

watch == <<wpc, lastSig, listed, reading, shown>>
watchVars == <<store, graphTime, watch, inPlace>>

\* watchSignature
Signature == <<[c \in Claims |-> files[c].ino], graphTime>>

\* What a print made now would find.
Found ==
  [inodes |-> [c \in Claims |-> files[c].ino], bodies |-> [c \in Claims |-> files[c].body],
   time |-> graphTime, stmt |-> stmt]

WatchInit ==
  /\ StoreInit
  /\ graphTime = 0
  /\ wpc = "begin"
  /\ lastSig = Signature /\ reading = Found /\ shown = None
  /\ listed = {} /\ inPlace = {}

\* The signature is taken before the first print.
BeginWatch ==
  /\ wpc = "begin"
  /\ wpc' = "print"
  /\ lastSig' = Signature
  /\ UNCHANGED <<listed, reading, shown, inPlace>>

\* One round of the loop: it prints again only if the signature has changed.
Poll ==
  /\ wpc = "sleep"
  /\ Signature # lastSig
  /\ wpc' = "print"
  /\ lastSig' = Signature
  /\ UNCHANGED <<listed, reading, shown, inPlace>>

\* printStatus loads the graph and lists the attestations.
List ==
  /\ wpc = "print"
  /\ wpc' = "load"
  /\ listed' = {c \in Claims : files[c].body # None}
  /\ reading' = Found
  /\ inPlace' = {}
  /\ UNCHANGED <<lastSig, shown>>

\* A file that has gone or does not decode ends the whole command.
LoadFile(c) ==
  /\ wpc = "load"
  /\ c \in listed
  /\ IF Whole(c)
       THEN /\ listed' = listed \ {c}
            /\ reading' = [reading EXCEPT !.inodes[c] = files[c].ino, !.bodies[c] = files[c].body]
            /\ inPlace' = inPlace \ {c}
            /\ UNCHANGED wpc
       ELSE wpc' = "ended" /\ UNCHANGED <<listed, reading, inPlace>>
  /\ UNCHANGED <<lastSig, shown>>

\* A variant of Kept: the signature is taken again after the print.
MutKept == Signature
Kept == lastSig

Display ==
  /\ wpc = "load"
  /\ listed = {}
  /\ wpc' = "sleep"
  /\ shown' = reading
  /\ lastSig' = Kept
  /\ UNCHANGED <<listed, reading, inPlace>>

WatchStep ==
  /\ BeginWatch \/ Poll \/ List \/ (\E c \in Claims : LoadFile(c)) \/ Display
  /\ UNCHANGED <<store, graphTime>>

\* A writer of the claim's file empties or fills it.
Overwritten(c) ==
  \E w \in Writers : job[w] # None /\ job[w].claim = c /\ (Open(w) \/ Fill(w))

\* Another command.  compile replaces the graph in .proofctl, whose time moves;
\* what writes a graph source in place moves only that file's time.
OtherStep ==
  /\ StoreNext
  /\ \/ graphTime' = graphTime /\ (GraphNamed => stmt' = stmt)
     \/ graphTime' = graphTime + 1 /\ stmt' # stmt
  /\ inPlace' = inPlace \cup {c \in Claims : Overwritten(c)}
  /\ UNCHANGED watch

WatchNext == WatchStep \/ OtherStep

\* The watch goes on as long as its process is scheduled; it needs no other.
WatchSpec == WatchInit /\ [][WatchNext]_watchVars /\ WF_watchVars(WatchStep)

-----------------------------------------------------------------------------
\* While the watch sleeps and its signature says that nothing has changed, the
\* last print showed every attestation as it is on disk now, unless a command has
\* since filled that file in place (replay, attest, a batch group), and the graph
\* as it is now, if config.json names a graph source.
ShownIsCurrent ==
  wpc = "sleep" /\ Signature = lastSig =>
    /\ \A c \in Claims : shown.bodies[c] = files[c].body \/ c \in inPlace
    /\ GraphNamed => shown.stmt = stmt

\* Every file that is created, renamed into place or removed, and every change of
\* the graph that moves a watched time, is taken into account by a later print,
\* unless the watch has ended: no change that falls between the signature and the
\* print, or into a print, is lost (cmd_status.go:248-291).
WatchCatchesUp ==
  \A t \in 1 .. MaxWrites :
    /\ \A c \in Claims :
         files[c].ino = t ~> wpc = "ended" \/ (shown # None /\ shown.inodes[c] >= t)
    /\ graphTime = t ~> wpc = "ended" \/ (shown # None /\ shown.time >= t)

=============================================================================
