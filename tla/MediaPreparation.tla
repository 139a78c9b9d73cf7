--------------------------- MODULE MediaPreparation ---------------------------
(***************************************************************************)
(* Preparing the photos and videos of a letter: preprocessMediaFiles in    *)
(* media-preprocessing.ts and the two transcoders of                       *)
(* timelapse-transcoder.ts.  A preparation works through its files one by  *)
(* one and waits for the browser at every step.  Leaving the page does not *)
(* stop it, so a second one may overlap it, and both use the one ffmpeg    *)
(* core of the tab and its file names.                                     *)
(***************************************************************************)
EXTENDS LetterFormats, FiniteSets

CONSTANTS
    Selections,       \* sequences of files a user may choose
    EncodedSizes,     \* sizes an encoder may produce
    MaxVideoBytes,    \* MAX_VIDEO_SOURCE_BYTES
    Preparations,     \* bound on the preparations of a tab
    MaxMediaFaults    \* bound on the failures of the browser

ASSUME MediaAssumption ==
    /\ EncodedSizes \subseteq Nat \ {0}
    /\ {MaxVideoBytes, Preparations, MaxMediaFaults} \subseteq Nat
    /\ \A files \in Selections :
          /\ files \in Seq({files[i] : i \in DOMAIN files})
          /\ \A i \in DOMAIN files :
                files[i].name # Bad /\ files[i].size \in Nat

VARIABLES
    device,      \* what the browser can do
    prep,        \* preparation -> where it is
    core,        \* ffmpegPromise
    disk,        \* the core's files: inputs by extension, and the output
    held,        \* preparation -> resources that wait to be released
    collided,    \* history: two preparations used the core at once
    mediaFaults

mediaVars == <<device, prep, core, disk, held, collided, mediaFaults>>

Preparation == 1..Preparations
Extension == {"webm", "mov", "mp4"}
Codecs == [webp |-> 1, jpeg |-> 2, webm |-> 16]
Image(file) == file.kind = "image"

\* A file is its name, kind, type, size and, for a photo, whether it fits the
\* edge limit, is larger, or has too many pixels.
SupportedImage == {"webp", "jpeg", "png"}

Rest == {"idle", "done", "failed"}
Resting == [files |-> << >>, at |-> 0, step |-> "idle", items |-> << >>,
            result |-> Bad, fault |-> FALSE]

MediaTypeOK ==
    /\ device \in [webp: BOOLEAN, plays: BOOLEAN, codecs: BOOLEAN]
    /\ \A p \in Preparation :
          /\ prep[p].files \in Selections \cup {<< >>}
          /\ prep[p].at \in 0..(Len(prep[p].files) + 1)
          /\ prep[p].step \in Rest \cup
                {"decode", "webp", "jpeg", "open", "frames", "finalize",
                 "load", "write", "exec", "read", "clean"}
          /\ \A i \in DOMAIN prep[p].items :
                <<prep[p].items[i].type, prep[p].items[i].codec>>
                    \in MediaMapping
          /\ prep[p].fault \in BOOLEAN
          /\ held[p] \subseteq {"bitmap", "input", "source", "output"}
    /\ core \in {"none", "loading", "loaded"}
    /\ DOMAIN disk = Extension \cup {"output"}
    /\ collided \in BOOLEAN /\ mediaFaults \in 0..MaxMediaFaults

MediaInit ==
    /\ device \in [webp: BOOLEAN, plays: {TRUE}, codecs: BOOLEAN]
                  \cup {[webp |-> TRUE, plays |-> FALSE, codecs |-> FALSE]}
    /\ prep = [p \in Preparation |-> Resting]
    /\ core = "none" /\ disk = [f \in Extension \cup {"output"} |-> Bad]
    /\ held = [p \in Preparation |-> {}]
    /\ collided = FALSE /\ mediaFaults = 0

-----------------------------------------------------------------------------
(* Sizes. *)

\* Mutant: the tags that encryption adds are forgotten.
EstimateWithoutTags(items) ==
    FoldLeft(LAMBDA n, item : n + 20 + item.size, 8, items)

\* estimateGbylBytes.
Estimate(items) ==
    FoldLeft(LAMBDA n, item : n + 36 + item.size, 8, items)

\* Mutant: a parcel of exactly the limit is refused.
TooLargeAtLimit(items) == Estimate(items) >= MaxArchiveBytes

\* assertArchiveSize.
TooLarge(items) == Estimate(items) > MaxArchiveBytes

-----------------------------------------------------------------------------
(* One file after the other. *)

\* The await at which work on the current file begins, or the end.
First(q) ==
    LET file == q.files[q.at]
    IN IF q.at > Len(q.files)
       THEN IF TooLarge(q.items) THEN "failed" ELSE "done"
       ELSE IF file.size = 0 THEN "failed"
       ELSE IF Image(file)
       THEN IF file.type \in SupportedImage THEN "decode" ELSE "failed"
       ELSE IF file.type \notin Extension \/ ~device.plays
               \/ file.size > MaxVideoBytes
            THEN "failed"
       ELSE IF device.codecs THEN "open" ELSE "load"

\* Preparation p goes on as q, keeping resources kept; whoever comes to load
\* the core starts it unless it is there or on its way.
Goes(p, q, kept) ==
    /\ prep' = [prep EXCEPT ![p] = q]
    /\ held' = [held EXCEPT ![p] = kept]
    /\ core' = IF q.step = "load" /\ core = "none" THEN "loading" ELSE core
To(p, step) == [prep[p] EXCEPT !.step = step]
Current(p) == prep[p].files[prep[p].at]

\* Mutant: the newest item is put first.
WithItemFirst(q, item) ==
    LET next == [q EXCEPT !.items = <<item>> \o @, !.at = @ + 1,
                          !.result = Bad]
    IN [next EXCEPT !.step = First(next)]

WithItem(q, item) ==
    LET next == [q EXCEPT !.items = Append(@, item), !.at = @ + 1,
                          !.result = Bad]
    IN [next EXCEPT !.step = First(next)]

Fault == mediaFaults < MaxMediaFaults /\ mediaFaults' = mediaFaults + 1
NoFault == UNCHANGED mediaFaults
Failed(p) == [To(p, "failed") EXCEPT !.fault = TRUE]

\* preprocessMediaFiles is called; a second time after the page was left.
Prepare(p, files) ==
    /\ prep[p].step = "idle" /\ \A r \in 1..(p - 1) : prep[r].step # "idle"
    /\ LET q == [Resting EXCEPT !.files = files, !.at = 1]
       IN Goes(p, [q EXCEPT !.step = First(q)], {})
    /\ NoFault /\ UNCHANGED <<device, disk, collided>>

-----------------------------------------------------------------------------
(* preprocessImage. *)

\* createImageBitmap; the bitmap is closed whatever follows.
Decode(p) ==
    /\ prep[p].step = "decode"
    /\ \/ /\ Current(p).pixels # "over" /\ NoFault
          /\ Goes(p, To(p, "webp"), {"bitmap"})
       \/ Current(p).pixels = "over" /\ NoFault /\ Goes(p, To(p, "failed"), {})
       \/ Fault /\ Goes(p, Failed(p), {})
    /\ UNCHANGED <<device, disk, collided>>

\* The original is kept when it has the right form and is no larger.
Selected(file, type, size) ==
    IF /\ file.pixels = "fits" /\ file.type \in {"webp", "jpeg"}
       /\ file.size <= size
    THEN [type |-> 1, codec |-> Codecs[file.type], content |-> file.name,
          size |-> file.size]
    ELSE [type |-> 1, codec |-> Codecs[type], content |-> file.name,
          size |-> size]

\* Mutant: the bitmap is closed only after a failure.
EncodedKeepsBitmap(p, type, size) ==
    Goes(p, WithItem(prep[p], Selected(Current(p), type, size)), held[p])

Encoded(p, type, size) ==
    Goes(p, WithItem(prep[p], Selected(Current(p), type, size)), {})

\* A browser that cannot make WebP answers with another type or with nothing; a
\* canvas that cannot be drawn on fails.
EncodeWebp(p) ==
    /\ prep[p].step = "webp" /\ UNCHANGED <<device, disk, collided>>
    /\ \/ /\ device.webp /\ NoFault
          /\ \E size \in EncodedSizes : Encoded(p, "webp", size)
       \/ ~device.webp /\ NoFault /\ Goes(p, To(p, "jpeg"), held[p])
       \/ Fault /\ Goes(p, To(p, "jpeg"), held[p])
       \/ Fault /\ Goes(p, Failed(p), {})

EncodeJpeg(p) ==
    /\ prep[p].step = "jpeg" /\ UNCHANGED <<device, disk, collided>>
    /\ \/ NoFault /\ \E size \in EncodedSizes : Encoded(p, "jpeg", size)
       \/ Fault /\ Goes(p, Failed(p), {})

-----------------------------------------------------------------------------
(* transcodeWithWebCodecs; any failure leads to ffmpeg. *)

WebCodecs(p, step, next, kept) ==
    /\ prep[p].step = step /\ NoFault
    /\ UNCHANGED <<device, disk, collided>>
    /\ Goes(p, To(p, next), kept)

\* The container, the track, its size and the encoder are looked at.
OpenVideo(p) == WebCodecs(p, "open", "frames", {"input", "source", "output"})

\* At least one frame came out, and the source is closed.
Frames(p) == WebCodecs(p, "frames", "finalize", {"input", "output"})

\* The output is canceled, the source closed and the input disposed of.
FallBack(p) ==
    \E step \in {"open", "frames", "finalize"} :
        WebCodecs(p, step, "load", {})

\* Mutant: the type of a photo.
TimelapseAsImage(name, size) ==
    [type |-> 1, codec |-> Codecs.webm, content |-> name, size |-> size]

Timelapse(name, size) ==
    [type |-> 2, codec |-> Codecs.webm, content |-> name, size |-> size]

Finalize(p) ==
    /\ prep[p].step = "finalize" /\ NoFault
    /\ \E size \in EncodedSizes :
          Goes(p, WithItem(prep[p], Timelapse(Current(p).name, size)), {})
    /\ UNCHANGED <<device, disk, collided>>

-----------------------------------------------------------------------------
(* ffmpegTimelapseTranscoder: one core, whose worker takes calls in turn. *)

Loaded ==
    /\ core = "loading" /\ core' = "loaded"
    /\ UNCHANGED <<device, prep, disk, held, collided, mediaFaults>>

\* Everyone who waits for the core fails; the next one starts it anew.
LoadFails ==
    /\ core = "loading" /\ core' = "none" /\ Fault
    /\ prep' = [p \in Preparation |->
           IF prep[p].step = "load" THEN Failed(p) ELSE prep[p]]
    /\ UNCHANGED <<device, disk, held, collided>>

HaveCore(p) ==
    /\ prep[p].step = "load" /\ core = "loaded" /\ NoFault
    /\ Goes(p, To(p, "write"), {}) /\ UNCHANGED <<device, disk, collided>>

Using(p) == prep[p].step \in {"exec", "read", "clean"}

\* Failing, or having run into the timeout, it still deletes its files.  The
\* core itself is taken to survive, and to delete what it is asked to.
Broken(p) ==
    Goes(p, [To(p, "clean") EXCEPT !.fault = TRUE], {}) /\ UNCHANGED disk

Write(p) ==
    /\ prep[p].step = "write"
    /\ collided' = (collided \/ \E r \in Preparation : Using(r))
    /\ \/ /\ disk' = [disk EXCEPT ![Current(p).type] = Current(p).name]
          /\ Goes(p, To(p, "exec"), {}) /\ NoFault
       \/ Fault /\ Broken(p)
    /\ UNCHANGED device

\* ffmpeg transcodes what the input file holds by now; its core overwrites.
Exec(p) ==
    LET input == disk[Current(p).type]
    IN /\ prep[p].step = "exec"
       /\ \/ /\ input # Bad /\ NoFault
             /\ disk' = [disk EXCEPT !.output = input]
             /\ Goes(p, To(p, "read"), {})
          \/ /\ input = Bad /\ NoFault
             /\ Goes(p, To(p, "clean"), {}) /\ UNCHANGED disk
          \/ Fault /\ Broken(p)
       /\ UNCHANGED <<device, collided>>

Read(p) ==
    /\ prep[p].step = "read"
    /\ \/ /\ NoFault /\ UNCHANGED disk
          /\ Goes(p, [To(p, "clean") EXCEPT !.result = disk.output], {})
       \/ Fault /\ Broken(p)
    /\ UNCHANGED <<device, collided>>

Emptied(p) == [disk EXCEPT ![Current(p).type] = Bad, !.output = Bad]

Clean(p) ==
    /\ prep[p].step = "clean" /\ disk' = Emptied(p) /\ NoFault
    /\ IF prep[p].result = Bad THEN Goes(p, To(p, "failed"), {})
       ELSE \E size \in EncodedSizes :
               Goes(p, WithItem(prep[p], Timelapse(prep[p].result, size)), {})
    /\ UNCHANGED <<device, collided>>

MediaStep(p) ==
    \/ Decode(p) \/ EncodeWebp(p) \/ EncodeJpeg(p)
    \/ OpenVideo(p) \/ Frames(p) \/ FallBack(p) \/ Finalize(p)
    \/ HaveCore(p) \/ Write(p) \/ Exec(p) \/ Read(p) \/ Clean(p)

MediaNext ==
    \/ \E p \in Preparation :
          MediaStep(p) \/ \E files \in Selections : Prepare(p, files)
    \/ Loaded \/ LoadFails

-----------------------------------------------------------------------------
(* Properties. *)

\* Every item of a prepared parcel shows the file in its place, unless two
\* preparations used the core at once: its file names are the same for all.
\* (preprocessMediaFiles 198-209, timelapse-transcoder.ts:111)
MediaInPlace ==
    \A p \in Preparation : prep[p].step = "done" /\ ~collided =>
        [i \in DOMAIN prep[p].items |-> prep[p].items[i].content]
        = [i \in DOMAIN prep[p].files |-> prep[p].files[i].name]

\* A preparation fails only for a file the page does not take, a parcel that
\* is too large, or a failure of the browser in this preparation: never for
\* what an earlier one left behind, nor because the core could not be loaded
\* for an earlier one.  (loadSingleThreadFfmpeg, the finally of
\* ffmpegTimelapseTranscoder)
Refused(file) ==
    \/ file.size = 0
    \/ Image(file) /\ (file.type \notin SupportedImage \/ file.pixels = "over")
    \/ ~Image(file) /\ (file.type \notin Extension \/ ~device.plays
                        \/ file.size > MaxVideoBytes)
FailsForACause ==
    \A p \in Preparation : prep[p].step = "failed" /\ ~collided =>
        \/ prep[p].fault \/ Estimate(prep[p].items) > MaxArchiveBytes
        \/ \E i \in DOMAIN prep[p].files : Refused(prep[p].files[i])

\* When nothing is being prepared no bitmap, decoder or file of the core is
\* left, whichever step failed.  (the finally blocks)
NothingHeld ==
    (\A p \in Preparation : prep[p].step \in Rest)
        => /\ \A p \in Preparation : held[p] = {}
           /\ \A f \in DOMAIN disk : disk[f] = Bad
=============================================================================
