-------------------------------- MODULE Link --------------------------------
(***************************************************************************)
(* The serial link of Core to the dev-bench (src/src/dev_bench_link.rs):   *)
(* frames that end in a zero byte, on a wire that loses bytes and picks up *)
(* noise; a thread that reads the port and hands its bytes over; recv,     *)
(* which cuts them into frames; and Drop, which ends the thread before the *)
(* port is opened anew.                                                    *)
(*                                                                         *)
(* A message is a number and a few bytes that tell whose they are; COBS    *)
(* and postcard are what decodes the bytes of one message and nothing      *)
(* else.  The dev-bench is not in the repository.                          *)
(***************************************************************************)
EXTENDS Naturals, Sequences, SequencesExt, FiniteSetsExt

CONSTANTS
    Size,           \* the bytes of a message before its delimiter
    Junk,           \* a frame that does not decode
    MaxMessages, MaxFaults, MaxLinks    \* bounds

ASSUME LinkAssumption == Size \in Nat \ {0} /\ Junk \notin Nat
ASSUME LinkBoundsAssumption == {MaxMessages, MaxFaults, MaxLinks} \subseteq Nat

VARIABLES
    mid, pos,       \* the message the bench is sending, and how many of its bytes are out
    driver,         \* bytes in the port's receive buffer
    plugged,        \* the port works
    port,           \* the link: "closed", "open", "closing"
    threaded,       \* it has a thread that reads; an inline one has recv do so
    reading,        \* links whose thread is in its loop
    failed,         \* the link's thread met an error
    channel,        \* bytes it handed over; recv takes all there are
    buf,            \* DevBenchLink::buf
    delivered,      \* what recv gave it
    excused,        \* messages that were damaged, or under way at a close
    faults, links   \* so far

benchVars == <<mid, pos, faults>>
threadVars == <<threaded, reading, failed>>
endVars == <<port, threadVars, channel, buf, links>>
linkVars == <<benchVars, driver, plugged, endVars, delivered, excused>>

Message == 1 .. MaxMessages
WireByte == [of : 0 .. MaxMessages, nth : 0 .. Size]
Zero == [of |-> 0, nth |-> 0]
Noise == [of |-> 0, nth |-> 1]
Encoded(m, k) == IF k > Size THEN Zero ELSE [of |-> m, nth |-> k]

LinkTypeOK ==
    /\ mid \in 1 .. MaxMessages + 1 /\ pos \in 0 .. Size /\ faults \in 0 .. MaxFaults
    /\ driver \in Seq(WireByte) /\ channel \in Seq(WireByte) /\ buf \in Seq(WireByte)
    /\ port \in {"closed", "open", "closing"}
    /\ {plugged, threaded, failed} \subseteq BOOLEAN
    /\ links \in 0 .. MaxLinks /\ reading \subseteq 1 .. MaxLinks
    /\ delivered \in Seq(Message \cup {Junk})
    /\ excused \subseteq 1 .. MaxMessages + 1

LinkInit ==
    /\ mid = 1 /\ pos = 0 /\ faults = 0
    /\ driver = <<>> /\ plugged = TRUE
    /\ port = "closed" /\ threaded = FALSE /\ reading = {} /\ failed = FALSE
    /\ channel = <<>> /\ buf = <<>> /\ links = 0
    /\ delivered = <<>> /\ excused = {}

-----------------------------------------------------------------------------
(* The dev-bench and the wire                                              *)

Sending == mid \in Message
NextByte == IF pos = Size THEN mid' = mid + 1 /\ pos' = 0 ELSE pos' = pos + 1 /\ UNCHANGED mid

SendByte ==
    /\ Sending /\ port # "closed" /\ plugged
    /\ driver' = Append(driver, Encoded(mid, pos + 1))
    /\ NextByte
    /\ UNCHANGED <<faults, plugged, endVars, delivered, excused>>

\* The driver's buffer is full.  A delimiter that is lost joins the next message
\* to this one.
LoseByte ==
    /\ Sending /\ faults < MaxFaults /\ port # "closed"
    /\ faults' = faults + 1
    /\ excused' = excused \cup {mid} \cup (IF pos = Size THEN {mid + 1} ELSE {})
    /\ NextByte
    /\ UNCHANGED <<driver, plugged, endVars, delivered>>

\* A stray delimiter harms what it is in the middle of, and nothing else.
StrayZero ==
    /\ faults < MaxFaults /\ port # "closed" /\ plugged
    /\ faults' = faults + 1
    /\ driver' = Append(driver, Zero)
    /\ excused' = IF pos > 0 THEN excused \cup {mid} ELSE excused
    /\ UNCHANGED <<mid, pos, plugged, endVars, delivered>>

\* A bench that resets leaves its message and prints its banner.
Reset ==
    /\ Sending /\ faults < MaxFaults /\ port # "closed" /\ plugged
    /\ faults' = faults + 1
    /\ driver' = Append(driver, Noise)
    /\ mid' = mid + 1 /\ pos' = 0
    /\ excused' = excused \cup {mid, mid + 1}
    /\ UNCHANGED <<plugged, endVars, delivered>>

\* Bound: in the last link, for no other follows on it.
Unplug ==
    /\ plugged /\ port = "open" /\ links = MaxLinks
    /\ plugged' = FALSE
    /\ UNCHANGED <<benchVars, driver, endVars, delivered, excused>>

-----------------------------------------------------------------------------
(* Frames                                                                  *)

\* Whether a frame ends here that is not empty, and where the first one does, 0
\* if none does.
EndsFrame(bytes, k) == k > 1 /\ bytes[k] = Zero /\ bytes[k - 1] # Zero
FrameEnd(bytes) ==
    LET ends == {k \in DOMAIN bytes : EndsFrame(bytes, k)}
    IN  IF ends = {} THEN 0 ELSE Min(ends)

\* from_bytes_cobs, of what is between this end and the delimiter before it.
Decode(bytes, end) ==
    LET m == bytes[end - 1].of
        start == end - Size
    IN  IF /\ start > 0 /\ (start = 1 \/ bytes[start - 1] = Zero)
           /\ m > 0 /\ \A k \in 1 .. Size : bytes[start + k - 1] = Encoded(m, k)
        THEN m ELSE Junk

Decoded(bytes) ==
    LET upTo[n \in 0 .. Len(bytes)] ==
            IF n = 0 THEN <<>>
            ELSE IF EndsFrame(bytes, n) THEN Append(upTo[n - 1], Decode(bytes, n))
            ELSE upTo[n - 1]
    IN  upTo[Len(bytes)]

-----------------------------------------------------------------------------
(* The reader thread, and recv                                             *)

\* open: a thread on a clone of the port, or none if it cannot be cloned.
OpenLink ==
    /\ port = "closed" /\ links < MaxLinks /\ plugged
    /\ port' = "open" /\ links' = links + 1
    /\ threaded' \in BOOLEAN
    /\ reading' = reading \cup (IF threaded' THEN {links'} ELSE {})
    /\ failed' = FALSE /\ channel' = <<>> /\ buf' = <<>>
    /\ UNCHANGED <<benchVars, driver, plugged, delivered, excused>>

\* What the thread of a link that went away still reads is nobody's.
ThreadReads(l) ==
    /\ l \in reading /\ driver # <<>>
    /\ driver' = <<>>
    /\ IF l = links /\ port # "closed"
       THEN channel' = channel \o driver /\ UNCHANGED reading
       ELSE reading' = reading \ {l} /\ UNCHANGED channel
    /\ UNCHANGED <<benchVars, plugged, port, threaded, failed, buf, links, delivered, excused>>

ThreadFails(l) ==
    /\ l \in reading /\ ~plugged /\ driver = <<>>
    /\ reading' = reading \ {l}
    /\ failed' = (failed \/ l = links)
    /\ UNCHANGED <<benchVars, driver, plugged, port, threaded, channel, buf, links, delivered, excused>>

\* Between two reads it finds stop set.
ThreadStops(l) ==
    /\ l \in reading /\ (l = links => port # "open")
    /\ reading' = reading \ {l}
    /\ UNCHANGED <<benchVars, driver, plugged, port, threaded, failed, channel, buf, links, delivered, excused>>

\* Mutant: an empty frame in front is no frame yet.
FirstFrameStuck(bytes) == IF bytes # <<>> /\ Head(bytes) = Zero THEN 0 ELSE FrameEnd(bytes)

\* take_frame: where the frame it takes ends, empty ones before it included.
FirstFrame(bytes) == FrameEnd(bytes)

\* Mutant: after a frame that does not decode the buffer is begun anew.
RestAfterResync(frame, rest) == IF frame = Junk THEN <<>> ELSE rest

\* A frame that does not decode costs that frame.
RestAfter(frame, rest) == rest

\* recv, which the loop calls over and over, until it drops the link; that the
\* deadline of a call passes changes nothing here.
TakeFrame ==
    LET end == FirstFrame(buf)
        frame == Decode(buf, end)
    IN
    /\ port = "open" /\ end # 0
    /\ delivered' = Append(delivered, frame)
    /\ buf' = RestAfter(frame, SubSeq(buf, end + 1, Len(buf)))
    /\ UNCHANGED <<benchVars, driver, plugged, port, threadVars, channel, links, excused>>

\* fill_once: everything the thread has handed over, or what the port has.
Fill ==
    /\ port = "open" /\ FirstFrame(buf) = 0
    /\ IF ~threaded
       THEN /\ driver # <<>> /\ buf' = buf \o driver /\ driver' = <<>>
            /\ UNCHANGED channel
       ELSE /\ channel # <<>> /\ buf' = buf \o channel /\ channel' = <<>>
            /\ UNCHANGED driver
    /\ UNCHANGED <<benchVars, plugged, port, threadVars, links, delivered, excused>>

\* The thread failed, perhaps right behind bytes that recv took with it: the
\* frames among them stay in buf for a caller that asks again.
RecvFails ==
    /\ port = "open" /\ FirstFrame(buf) = 0
    /\ \/ threaded /\ failed /\ buf' = buf \o channel /\ channel' = <<>>
       \/ ~threaded /\ ~plugged /\ driver = <<>> /\ UNCHANGED <<buf, channel>>
    /\ UNCHANGED <<benchVars, driver, plugged, port, threadVars, links, delivered, excused>>

-----------------------------------------------------------------------------
(* Drop                                                                    *)

\* The loop is done with the link, and the thread is told to stop.
Drop ==
    /\ port = "open"
    /\ port' = "closing"
    /\ UNCHANGED <<benchVars, driver, plugged, threadVars, channel, buf, links, delivered,
                   excused>>

\* Mutant: the thread is left to find out by itself.
Detached == TRUE

Joined == links \notin reading

\* What is under way the loop will not see.
CloseLink ==
    /\ port = "closing" /\ Joined
    /\ port' = "closed" /\ channel' = <<>> /\ buf' = <<>>
    /\ excused' = excused \cup {m \in Message : m < mid /\ m \notin ToSet(delivered)}
                          \cup (IF pos > 0 THEN {mid} ELSE {})
    /\ UNCHANGED <<benchVars, driver, plugged, threadVars, links, delivered>>

-----------------------------------------------------------------------------

ThreadStep(l) == ThreadReads(l) \/ ThreadFails(l) \/ ThreadStops(l)
RecvStep == TakeFrame \/ Fill \/ RecvFails

LinkNext ==
    \/ SendByte \/ LoseByte \/ StrayZero \/ Reset
    \/ Unplug
    \/ OpenLink \/ Drop \/ CloseLink
    \/ \E l \in 1 .. MaxLinks : ThreadStep(l)
    \/ RecvStep

LinkSpec == LinkInit /\ [][LinkNext]_linkVars

\* The thread reads on, the loop calls recv until it gives the link up, and Drop
\* waits for the thread.
FairLinkSpec ==
    /\ LinkSpec
    /\ WF_linkVars(\E l \in 1 .. MaxLinks : ThreadStep(l))
    /\ WF_linkVars(TakeFrame \/ Fill) /\ WF_linkVars(CloseLink)

-----------------------------------------------------------------------------
(* Properties                                                              *)

Pipeline == buf \o channel \o driver

\* The link implements the link of whole frames: however the bytes were cut up
\* on their way through thread, channel and buffer, every frame arrives once and
\* in order, and a link that is opened anew is not robbed by the one before.
WholeLink == INSTANCE FrameLink WITH queue <- Decoded(Pipeline)

WholeFrames == WholeLink!Spec

\* "An undecodable frame costs the frame, not the link": a run of lost bytes
\* costs the messages it hit and, with a delimiter, the one behind; a stray
\* delimiter between two messages costs none.
DamageIsContained ==
    /\ LinkTypeOK
    /\ {m \in Message : m < mid} \subseteq excused \cup ToSet(delivered \o Decoded(Pipeline))

\* A frame that has arrived is given to the loop, for as long as it listens on
\* a working link, whatever empty and ruined frames there are before it.
FramesAreDelivered ==
    \A m \in Message :
        m \in ToSet(Decoded(Pipeline)) ~> (m \in ToSet(delivered) \/ port # "open" \/ ~plugged)
=============================================================================
