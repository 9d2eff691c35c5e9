------------------------------ MODULE ImageTrial ------------------------------
(* The trial of labs/attachment-input/examples/live.ts around the proxy of   *)
(* UploadProxy: a harness that uploads through the proxy, a deadline around  *)
(* each of its runs, and the nested finally blocks that give everything back *)
(* or say what they keep.  External: the harness, the remote files, the      *)
(* calls of the operating system; each may fail.                             *)
EXTENDS Naturals

CONSTANTS MaxImageFaults  \* calls that fail in a trial

VARIABLES
  image,        \* where the trial is
  imageOwner,   \* the process of the harness: "none", "running", "gone"
  proxy,        \* "none", "open", "closed"
  files,        \* some file of this run is in the remote service
  flags,        \* of the script: those of closed, attempted, cleaned, verified that are set
  kept,         \* the directory of the trial is there
  told,         \* what the script said of it at the end
  imageFailed,  \* an error is on its way to the exit code
  imageFaults

imageVars == <<image, imageOwner, proxy, files, flags, kept, told, imageFailed, imageFaults>>

Finally == {"finally owner", "finally cleanup", "finally evidence", "finally proxy", "finally remove"}

To(at)         == image' = at /\ UNCHANGED <<imageFailed, imageFaults>>
ImageFails(at) == /\ imageFaults < MaxImageFaults /\ imageFaults' = imageFaults + 1
                  /\ imageFailed' = TRUE /\ image' = at
Goes(ok, next, otherwise) == IF ok THEN To(next) ELSE ImageFails(otherwise)

\* While the harness lives it may upload, whatever the script is doing.
Uploads ==
  /\ imageOwner = "running" /\ proxy = "open" /\ files' = TRUE
  /\ UNCHANGED <<image, imageOwner, proxy, flags, kept, told, imageFailed, imageFaults>>

\* Arguments and key; the directory; the images; the proxy.
SetUp(ok, got) ==
  /\ image = "setup"
  /\ IF got THEN kept' = TRUE ELSE ~ ok /\ UNCHANGED kept
  /\ Goes(ok, "start", IF got THEN "finally owner" ELSE "over")
  /\ proxy' = IF ok THEN "open" ELSE proxy
  /\ UNCHANGED <<imageOwner, files, flags, told>>

\* The harness is made, closed is reset, and its process is started, which may leave one
\* behind even if it fails.
OwnerStarts(ok, made) ==
  /\ image = "start" /\ (ok => made)
  /\ imageOwner' \in IF ok THEN {"running"} ELSE IF made THEN {"running", "gone"} ELSE {"none"}
  /\ flags' = IF made THEN flags \ {"closed"} ELSE flags
  /\ Goes(ok, "first", "finally owner")
  /\ UNCHANGED <<proxy, files, kept, told>>

\* bounded: a run that fails or is late closes the harness before its error goes on.
BoundedRun(now, next, ok) ==
  /\ image = now /\ Goes(ok, next, "bounded close")
  /\ UNCHANGED <<imageOwner, proxy, files, flags, kept, told>>

FirstRun(ok)  == BoundedRun("first", "second", ok)
SecondRun(ok) == BoundedRun("second", "close", ok)

\* The first run was to be rejected, so there is no second.
FirstRunOnly ==
  /\ image = "second" /\ To("close")
  /\ UNCHANGED <<imageOwner, proxy, files, flags, kept, told>>

\* An answer that is not the expected one is no failure of a run: nothing is closed yet.
AnswerRefused ==
  /\ image \in {"second", "close"} /\ ImageFails("finally owner")
  /\ UNCHANGED <<imageOwner, proxy, files, flags, kept, told>>

BoundedClose(gone) ==
  /\ image = "bounded close" /\ To("finally owner")
  /\ imageOwner' = IF gone THEN "gone" ELSE imageOwner
  /\ UNCHANGED <<proxy, files, flags, kept, told>>

OwnerCloses(ok, gone, now, next, otherwise) ==
  /\ image = now /\ (ok => gone)
  /\ imageOwner' = IF gone THEN "gone" ELSE imageOwner
  /\ flags' = IF ok THEN flags \cup {"closed"} ELSE flags
  /\ Goes(ok, next, otherwise)
  /\ UNCHANGED <<proxy, files, kept, told>>

ClosesOwner(ok, gone) == OwnerCloses(ok, gone, "close", "verify", "finally owner")

\* Everything that is asserted about the events, the stored session and the transport.
Verifies(ok) ==
  /\ image = "verify" /\ Goes(ok, "cleanup", "finally owner")
  /\ UNCHANGED <<imageOwner, proxy, files, flags, kept, told>>

\* A cleanup that succeeds has left nothing remote of what was uploaded before.
CleansUp(ok, now, next, otherwise) ==
  /\ image = now
  /\ files' = IF ok THEN FALSE ELSE files
  /\ flags' = flags \cup {"attempted"} \cup (IF ok THEN {"cleaned"} ELSE {})
  /\ Goes(ok, next, otherwise)
  /\ UNCHANGED <<imageOwner, proxy, kept, told>>

CleanUpFirst(ok) == CleansUp(ok, "cleanup", "result", "finally owner")

\* What was uploaded is what was deleted, and the result is printed.
Results(ok) ==
  /\ image = "result" /\ Goes(ok, "finally owner", "finally owner")
  /\ flags' = IF ok THEN flags \cup {"verified"} ELSE flags
  /\ UNCHANGED <<imageOwner, proxy, files, kept, told>>

\* The finally blocks: whatever one of them throws, the next ones are entered.
FinallyOwner(ok, gone) ==
  \/ /\ image = "finally owner" /\ "closed" \in flags
     /\ To("finally cleanup")
     /\ UNCHANGED <<imageOwner, proxy, files, flags, kept, told>>
  \/ /\ "closed" \notin flags
     /\ OwnerCloses(ok, gone, "finally owner", "finally cleanup", "finally cleanup")

FinallyCleansUp(ok) ==
  \/ /\ image = "finally cleanup" /\ (proxy = "none" \/ "attempted" \in flags)
     /\ To("finally evidence")
     /\ UNCHANGED <<imageOwner, proxy, files, flags, kept, told>>
  \/ /\ proxy # "none" /\ "attempted" \notin flags
     /\ CleansUp(ok, "finally cleanup", "finally evidence", "finally evidence")

FinallyEvidence(ok) ==
  /\ image = "finally evidence"
  /\ IF proxy = "none" THEN To("finally proxy") ELSE Goes(ok, "finally proxy", "finally proxy")
  /\ UNCHANGED <<imageOwner, proxy, files, flags, kept, told>>

FinallyProxy(ok) ==
  /\ image = "finally proxy"
  /\ proxy' = IF ok /\ proxy # "none" THEN "closed" ELSE proxy
  /\ IF proxy = "none" THEN To("finally remove") ELSE Goes(ok, "finally remove", "finally remove")
  /\ UNCHANGED <<imageOwner, files, flags, kept, told>>

Removable == {"verified", "closed", "cleaned"} \subseteq flags /\ proxy # "open"

Removes(ok) ==
  /\ image = "finally remove"
  /\ IF Removable THEN Goes(ok, "over", "over") ELSE ok /\ To("over")
  /\ kept' = ~ (Removable /\ ok)
  /\ told' = IF Removable /\ ok THEN "removed" ELSE "retained"
  /\ UNCHANGED <<imageOwner, proxy, files, flags>>

ImageInit ==
  /\ image = "setup" /\ imageOwner = "none" /\ proxy = "none" /\ files = FALSE
  /\ flags = {"closed"} /\ kept = FALSE /\ told = "nothing"
  /\ imageFailed = FALSE /\ imageFaults = 0

ImageNext ==
  \/ Uploads \/ FirstRunOnly \/ AnswerRefused
  \/ \E ok, gone \in BOOLEAN :
       \/ SetUp(ok, gone) \/ OwnerStarts(ok, gone) \/ FirstRun(ok) \/ SecondRun(ok)
       \/ BoundedClose(gone) \/ ClosesOwner(ok, gone) \/ Verifies(ok) \/ CleanUpFirst(ok)
       \/ Results(ok) \/ FinallyOwner(ok, gone) \/ FinallyCleansUp(ok) \/ FinallyEvidence(ok)
       \/ FinallyProxy(ok) \/ Removes(ok)

ImageSpec == ImageInit /\ [][ImageNext]_imageVars

ImageTypeOK ==
  /\ image \in {"setup", "start", "first", "second", "bounded close", "close", "verify", "cleanup",
                "result", "over"} \cup Finally
  /\ imageOwner \in {"none", "running", "gone"} /\ proxy \in {"none", "open", "closed"}
  /\ flags \subseteq {"closed", "attempted", "cleaned", "verified"}
  /\ {files, kept, imageFailed} \subseteq BOOLEAN /\ imageFaults \in 0 .. MaxImageFaults

\* The directory, which holds the only record of what is left to clean up, is removed
\* only when nothing is left: no process, no listening proxy and no remote file; and a
\* trial without an error has removed it.
RemovalIsEarned ==
  /\ image = "over" /\ told = "removed" =>
       ~ kept /\ ~ files /\ imageOwner # "running" /\ proxy # "open"
  /\ image = "over" /\ ~ imageFailed => told = "removed"
  /\ image = "over" /\ kept => told = "retained"
===============================================================================
