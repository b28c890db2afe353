--------------------------- MODULE ProductionInputs ---------------------------
(***************************************************************************)
(* What the Seller prepares, and buys, for one order before its Build      *)
(* (hypit-adapter.mjs #context, production-input-preparer.mjs): the        *)
(* customer's reference video, the commission, the analysis of the video,  *)
(* the advertising copy, one voice recording per speaker turn and the      *)
(* manifest of them all.                                                   *)
(*                                                                         *)
(* Each is a file of the job directory, created exclusively and not        *)
(* renamed into place, so a crash or a full disk may leave it torn.  The   *)
(* next run takes up whatever the last one left.  The lock and the marker  *)
(* files of a paid call are those of SupplierAttempt, here one step.       *)
(***************************************************************************)
EXTENDS Naturals

CONSTANT MaxTurns     \* speaker turns over all variants; bound

ASSUME InputsAssumption == MaxTurns \in Nat \ {0}

\* film: the order's copy of the reference video; cached: the Seller's cache has it.
VARIABLES reference, stopped, film, cached, commission, tries, closed, audio, result,
    copy, manifest, built, run, paid, late

vars == <<reference, stopped, film, cached, commission, tries, closed, audio, result,
    copy, manifest, built, run, paid, late>>
files == <<film, cached, commission, manifest, built>>
markers == <<tries, closed>>
products == <<audio, result, copy>>
ghosts == <<paid, late>>

-----------------------------------------------------------------------------
\* The paid work items, in their order.
Analysis == 1
Copy == 2
Voice(turn) == 2 + turn
Items == 1 .. 2 + MaxTurns
Files == {"absent", "torn", "whole"}
Steps == {"idle", "commission", "image", "video", "copying", "fetching", "write", "gate",
    "inputs", "item", "sample", "reserve", "spend", "call", "answer", "finalize", "record",
    "manifest", "compile", "handover"}
Run == [pc : Steps, item : Items]
Idle == [pc |-> "idle", item |-> Analysis]

\* closed: the supplier's answer is on record, or a marker is torn; either way
\* callSellerProviderTwice never calls again.  copy: how many turns the copy asks to
\* be spoken and whether they exceed the characters allowed per order.
TypeOK ==
    /\ {reference, stopped, cached, built} \subseteq BOOLEAN
    /\ {film, commission, manifest} \subseteq Files
    /\ tries \in [Items -> 0 .. 2]
    /\ closed \in [Items -> BOOLEAN]
    /\ audio \in [Items -> BOOLEAN]
    /\ result \in [Items -> Files]
    /\ copy \in [turns : 0 .. MaxTurns, over : BOOLEAN]
    /\ run \in Run
    /\ paid \in [Items -> Nat]
    /\ late \in Nat

Init ==
    /\ reference \in BOOLEAN /\ cached \in BOOLEAN /\ film = "absent"
    /\ stopped = FALSE /\ built = FALSE
    /\ commission = "absent" /\ manifest = "absent"
    /\ tries = [i \in Items |-> 0]
    /\ closed = [i \in Items |-> FALSE]
    /\ audio = [i \in Items |-> FALSE]
    /\ result = [i \in Items |-> "absent"]
    /\ copy = [turns |-> 0, over |-> FALSE]
    /\ run = Idle
    /\ paid = [i \in Items |-> 0]
    /\ late = 0

At(pc) == run.pc = pc
Goes(pc) == run' = [run EXCEPT !.pc = pc]
\* The run throws; what it has written stays.
Ends == run' = Idle
Current == run.item
\* The items are taken in turn; the copy says how many there are, and the voice
\* provider's limit is checked before the first of them.
Proceeds(after, turns, over) == run' =
    IF after = Analysis THEN [pc |-> "inputs", item |-> Copy]
    ELSE IF after = Copy /\ over THEN Idle
    ELSE IF after < Voice(turns) THEN [pc |-> "item", item |-> after + 1]
    ELSE [pc |-> "manifest", item |-> after]

-----------------------------------------------------------------------------
(* #context up to the inputs. *)

Begin ==
    /\ At("idle") /\ ~built
    /\ Goes("commission")
    /\ UNCHANGED <<reference, stopped>> /\ UNCHANGED files
    /\ UNCHANGED markers /\ UNCHANGED products /\ UNCHANGED ghosts

\* The commission is written once; a later run reads it, and cannot use a torn one.
ReadCommission ==
    /\ At("commission")
    /\ \/ commission = "whole" /\ Goes("gate")
       \/ commission = "torn" /\ Ends
       \/ commission = "absent" /\ Goes("image")
    /\ UNCHANGED <<reference, stopped>> /\ UNCHANGED files
    /\ UNCHANGED markers /\ UNCHANGED products /\ UNCHANGED ghosts

\* An upload of the shared directory or a download from a pinned public address,
\* at most three redirects on; it overwrites what an earlier run left.
LocalizeImage ==
    /\ At("image")
    /\ Goes(IF reference THEN "video" ELSE "write") \/ Ends
    /\ UNCHANGED <<reference, stopped>> /\ UNCHANGED files
    /\ UNCHANGED markers /\ UNCHANGED products /\ UNCHANGED ghosts

\* Mutant: what an earlier run left is taken for the video.
FindLeftover ==
    /\ At("video")
    /\ \/ film # "absent" /\ Goes("write") /\ UNCHANGED film
       \/ film = "absent" /\ film' = "torn" /\ Goes(IF cached THEN "copying" ELSE "fetching")
    /\ UNCHANGED <<reference, stopped, cached, commission, manifest, built>>
    /\ UNCHANGED markers /\ UNCHANGED products /\ UNCHANGED ghosts

\* downloadSocialReferenceVideo: a cached video is copied to a new file, so what an
\* earlier run left makes this one fail, which removes it.  Otherwise Hypit fetches
\* the video.  The disk must have room for it.
FindVideo ==
    /\ At("video")
    /\ \/ Ends /\ UNCHANGED film
       \/ cached /\ film = "absent" /\ film' = "torn" /\ Goes("copying")
       \/ cached /\ film # "absent" /\ film' = "absent" /\ Ends
       \/ ~cached /\ film' = "torn" /\ Goes("fetching")
    /\ UNCHANGED <<reference, stopped, cached, commission, manifest, built>>
    /\ UNCHANGED markers /\ UNCHANGED products /\ UNCHANGED ghosts

\* The open handle outlives the cache entry.
CopyVideo ==
    /\ At("copying")
    /\ \/ film' = "whole" /\ Goes("write")
       \/ film' = "absent" /\ Ends
    /\ UNCHANGED <<reference, stopped, cached, commission, manifest, built>>
    /\ UNCHANGED markers /\ UNCHANGED products /\ UNCHANGED ghosts

\* A fetched video is linked into the cache, after older ones have made room; a
\* cache that cannot take it fails the run.
FetchVideo ==
    /\ At("fetching")
    /\ \/ film' = "whole" /\ cached' = TRUE /\ Goes("write")
       \/ film' = "absent" /\ Ends /\ UNCHANGED cached
    /\ UNCHANGED <<reference, stopped, commission, manifest, built>>
    /\ UNCHANGED markers /\ UNCHANGED products /\ UNCHANGED ghosts

\* Other orders fetch the same video, or have it pruned to make room.
OtherOrders ==
    /\ cached' = ~cached
    /\ UNCHANGED <<reference, stopped, film, commission, manifest, built, run>>
    /\ UNCHANGED markers /\ UNCHANGED products /\ UNCHANGED ghosts

WriteCommission ==
    /\ At("write")
    /\ \/ commission' = "whole" /\ Goes("gate")
       \/ commission' = "torn" /\ Ends
    /\ UNCHANGED <<reference, stopped, film, cached, manifest, built>>
    /\ UNCHANGED markers /\ UNCHANGED products /\ UNCHANGED ghosts

\* Only a reference video is analysed.
Gate ==
    /\ At("gate")
    /\ IF stopped THEN Ends
       ELSE run' = IF reference THEN [pc |-> "item", item |-> Analysis]
                   ELSE [pc |-> "inputs", item |-> Copy]
    /\ UNCHANGED <<reference, stopped>> /\ UNCHANGED files
    /\ UNCHANGED markers /\ UNCHANGED products /\ UNCHANGED ghosts

\* prepare(): a manifest that exists is verified against every file and used.
TakeManifest ==
    /\ At("inputs")
    /\ \/ manifest = "whole" /\ Goes("compile")
       \/ manifest = "torn" /\ Ends
       \/ manifest = "absent" /\ Goes("item")
    /\ UNCHANGED <<reference, stopped>> /\ UNCHANGED files
    /\ UNCHANGED markers /\ UNCHANGED products /\ UNCHANGED ghosts

-----------------------------------------------------------------------------
(* One paid item. *)

\* A whole result is used again, a torn one ends the run.
Reuse == \/ result[Current] = "whole" /\ Proceeds(Current, copy.turns, copy.over)
         \/ result[Current] = "torn" /\ Ends

TakeAnalysis ==
    /\ At("item") /\ Current = Analysis
    /\ Reuse \/ (result[Analysis] = "absent" /\ Goes("sample"))
    /\ UNCHANGED <<reference, stopped>> /\ UNCHANGED files
    /\ UNCHANGED markers /\ UNCHANGED products /\ UNCHANGED ghosts

\* Probe, shot boundaries, at most ten frames: nothing of this is paid for.
Sample ==
    /\ At("sample")
    /\ Goes("reserve") \/ Ends
    /\ UNCHANGED <<reference, stopped>> /\ UNCHANGED files
    /\ UNCHANGED markers /\ UNCHANGED products /\ UNCHANGED ghosts

TakeCopy ==
    /\ At("item") /\ Current = Copy
    /\ Reuse \/ (result[Copy] = "absent" /\ IF stopped THEN Ends ELSE Goes("reserve"))
    /\ UNCHANGED <<reference, stopped>> /\ UNCHANGED files
    /\ UNCHANGED markers /\ UNCHANGED products /\ UNCHANGED ghosts

\* A recording without its record ends the run, for ever.
TakeVoice ==
    /\ At("item") /\ Current > Copy
    /\ \/ Reuse
       \/ result[Current] = "absent" /\ IF stopped \/ audio[Current] THEN Ends ELSE Goes("reserve")
    /\ UNCHANGED <<reference, stopped>> /\ UNCHANGED files
    /\ UNCHANGED markers /\ UNCHANGED products /\ UNCHANGED ghosts

\* Mutant: the answer on record is not looked for.
ReserveAgain ==
    /\ At("reserve")
    /\ IF tries[Current] = 2 THEN Ends /\ UNCHANGED tries
       ELSE tries' = [tries EXCEPT ![Current] = @ + 1] /\ Goes("spend")
    /\ UNCHANGED closed
    /\ UNCHANGED <<reference, stopped>> /\ UNCHANGED files
    /\ UNCHANGED products /\ UNCHANGED ghosts

\* callSellerProviderTwice up to its marker, which may be torn.
Reserve ==
    /\ At("reserve")
    /\ \/ /\ closed[Current] \/ tries[Current] = 2
          /\ Ends /\ UNCHANGED markers
       \/ /\ ~closed[Current] /\ tries[Current] < 2
          /\ \/ /\ tries' = [tries EXCEPT ![Current] = @ + 1]
                /\ Goes("spend") /\ UNCHANGED closed
             \/ /\ closed' = [closed EXCEPT ![Current] = TRUE]
                /\ Ends /\ UNCHANGED tries
    /\ UNCHANGED <<reference, stopped>> /\ UNCHANGED files
    /\ UNCHANGED products /\ UNCHANGED ghosts

Again == IF tries[Current] = 2 THEN Ends ELSE Goes("reserve")

\* Mutant: the stop is looked for once per run.
SpendUnasked ==
    /\ At("spend")
    /\ Goes("call")
    /\ UNCHANGED <<reference, stopped>> /\ UNCHANGED files
    /\ UNCHANGED markers /\ UNCHANGED products /\ UNCHANGED ghosts

\* beforeCall: a gate that cannot be read counts as a failed call.
Spend ==
    /\ At("spend")
    /\ \/ stopped /\ Ends
       \/ ~stopped /\ Goes("call")
       \/ Again
    /\ UNCHANGED <<reference, stopped>> /\ UNCHANGED files
    /\ UNCHANGED markers /\ UNCHANGED products /\ UNCHANGED ghosts

\* No credential, no project or no voice for the language: nothing is asked for.
CallUnmade ==
    /\ At("call")
    /\ Again
    /\ UNCHANGED <<reference, stopped>> /\ UNCHANGED files
    /\ UNCHANGED markers /\ UNCHANGED products /\ UNCHANGED ghosts

\* DeepSeek for analysis and copy, Google's speech service for a turn.
Call ==
    /\ At("call")
    /\ paid' = [paid EXCEPT ![Current] = @ + 1]
    /\ late' = IF stopped THEN late + 1 ELSE late
    /\ Goes("answer")
    /\ UNCHANGED <<reference, stopped>> /\ UNCHANGED files
    /\ UNCHANGED markers /\ UNCHANGED products

CallFails ==
    /\ At("answer")
    /\ Again
    /\ UNCHANGED <<reference, stopped>> /\ UNCHANGED files
    /\ UNCHANGED markers /\ UNCHANGED products /\ UNCHANGED ghosts

\* The marker that says so is written before the answer is used, or torn.
CallAnswers ==
    /\ At("answer")
    /\ closed' = [closed EXCEPT ![Current] = TRUE]
    /\ Goes("finalize") \/ Ends
    /\ UNCHANGED <<reference, stopped, tries>> /\ UNCHANGED files
    /\ UNCHANGED products /\ UNCHANGED ghosts

\* finalize() writes down what was answered; it may throw before, or tear the file.
Writes(item) == result' = [result EXCEPT ![item] = "whole"]
Loses(item) == result' \in {result, [result EXCEPT ![item] = "torn"]} /\ Ends

FinalizeAnalysis ==
    /\ At("finalize") /\ Current = Analysis
    /\ \/ Writes(Analysis) /\ Proceeds(Analysis, copy.turns, copy.over)
       \/ Loses(Analysis)
    /\ UNCHANGED <<reference, stopped, audio, copy>> /\ UNCHANGED files
    /\ UNCHANGED markers /\ UNCHANGED ghosts

\* Copy must have every variant once, with turns its product can speak.
FinalizeCopy ==
    /\ At("finalize") /\ Current = Copy
    /\ \/ \E turns \in 1 .. MaxTurns, over \in BOOLEAN :
              /\ copy' = [turns |-> turns, over |-> over]
              /\ Writes(Copy) /\ Proceeds(Copy, turns, over)
       \/ Loses(Copy) /\ UNCHANGED copy
    /\ UNCHANGED <<reference, stopped, audio>> /\ UNCHANGED files
    /\ UNCHANGED markers /\ UNCHANGED ghosts

\* The partial file is renamed into place unless it is empty.
FinalizeVoice ==
    /\ At("finalize") /\ Current > Copy
    /\ \/ audio' = [audio EXCEPT ![Current] = TRUE] /\ Goes("record")
       \/ UNCHANGED audio /\ Ends
    /\ UNCHANGED <<reference, stopped, result, copy>> /\ UNCHANGED files
    /\ UNCHANGED markers /\ UNCHANGED ghosts

\* The recording is in place, its record follows.
Record ==
    /\ At("record")
    /\ \/ Writes(Current) /\ Proceeds(Current, copy.turns, copy.over)
       \/ Loses(Current)
    /\ UNCHANGED <<reference, stopped, audio, copy>> /\ UNCHANGED files
    /\ UNCHANGED markers /\ UNCHANGED ghosts

-----------------------------------------------------------------------------
(* After the inputs. *)

WriteManifest ==
    /\ At("manifest")
    /\ \/ manifest' = "whole" /\ Goes("compile")
       \/ manifest' = "torn" /\ Ends
    /\ UNCHANGED <<reference, stopped, film, cached, commission, built>>
    /\ UNCHANGED markers /\ UNCHANGED products /\ UNCHANGED ghosts

\* The voices are approved and as required, Veo's segments are there (VeoSegments)
\* and the project compiles, or one of these throws.
Compile ==
    /\ At("compile")
    /\ Goes("handover") \/ Ends
    /\ UNCHANGED <<reference, stopped>> /\ UNCHANGED files
    /\ UNCHANGED markers /\ UNCHANGED products /\ UNCHANGED ghosts

\* start() checks and plans the project, passes its gate and submits the Build
\* (SellerOrders).
Handover ==
    /\ At("handover")
    /\ built' = ~stopped
    /\ Ends
    /\ UNCHANGED <<reference, stopped, film, cached, commission, manifest>>
    /\ UNCHANGED markers /\ UNCHANGED products /\ UNCHANGED ghosts

Stop ==
    /\ ~stopped /\ stopped' = TRUE
    /\ UNCHANGED <<reference, run>> /\ UNCHANGED files
    /\ UNCHANGED markers /\ UNCHANGED products /\ UNCHANGED ghosts

\* The process dies, or a step throws that leaves nothing behind.
Crash ==
    /\ ~At("idle") /\ Ends
    /\ UNCHANGED <<reference, stopped>> /\ UNCHANGED files
    /\ UNCHANGED markers /\ UNCHANGED products /\ UNCHANGED ghosts

Localization ==
    ReadCommission \/ LocalizeImage \/ FindVideo \/ CopyVideo \/ FetchVideo \/ WriteCommission
RunStep ==
    \/ Localization \/ Gate \/ TakeManifest \/ TakeAnalysis \/ Sample \/ TakeCopy \/ TakeVoice
    \/ Reserve \/ Spend \/ CallUnmade \/ Call \/ CallFails \/ CallAnswers
    \/ FinalizeAnalysis \/ FinalizeCopy \/ FinalizeVoice \/ Record
    \/ WriteManifest \/ Compile \/ Handover

Next == Begin \/ RunStep \/ OtherOrders \/ Stop \/ Crash

Spec == Init /\ [][Next]_vars

-----------------------------------------------------------------------------
\* Over all runs of an order an item is bought at most twice, never more often than
\* its markers admit (PAYMENT_LIFECYCLE.md:40-42).
PaidTwiceAtMost == \A item \in Items : paid[item] <= tries[item]

\* A stop lets through at most the one call that had passed the gate.
StopEndsBuying == late <= 1

\* What an order's suppliers can cost is bounded, whatever crashes, failing calls,
\* torn files and new runs come together.
SpendingBounded == TypeOK /\ PaidTwiceAtMost /\ StopEndsBuying

\* Whatever is lost after an answer, it is not bought again, by this run or a later one.
AnswerNotRebought == [][\A item \in Items : closed[item] => paid'[item] = paid[item]]_vars

\* What item builds on is on disk, in full: the reference video behind the
\* commission, its analysis, the copy, all earlier voices and a number of characters
\* the order allows.
Founded(item) ==
    /\ commission = "whole" /\ (reference => film = "whole")
    /\ item = Analysis => reference
    /\ item = Copy /\ reference => result[Analysis] = "whole"
    /\ item > Copy => /\ result[Copy] = "whole" /\ ~copy.over /\ item <= Voice(copy.turns)
                      /\ \A earlier \in Copy .. item - 1 : result[earlier] = "whole"

\* Nothing is bought and no Build submitted on the strength of something that an
\* earlier run left torn or did not finish, and what was built has been paid for.
BuiltOnWhole ==
    /\ \A item \in Items : paid[item] > 0 => Founded(item)
    /\ built =>
         /\ manifest = "whole"
         /\ reference => result[Analysis] = "whole"
         /\ \A item \in Copy .. Voice(copy.turns) :
                result[item] = "whole" /\ closed[item] /\ paid[item] > 0
=============================================================================
