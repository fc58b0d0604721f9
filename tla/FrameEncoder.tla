----------------------------- MODULE FrameEncoder -----------------------------
(***************************************************************************)
(* The life of a FrameEncoder (src/FrameEncoder.cpp) and of the screen     *)
(* images it encodes (src/Screen.cpp): what is allocated, what is freed,   *)
(* and which frames come out.  No code of the program uses the class; the  *)
(* caller assumed here encodes images while it likes, recycles each image  *)
(* and each Frame before the next call, asks for the delayed frames until  *)
(* there are none, and destroys the encoder whenever it likes.             *)
(*                                                                         *)
(* The codec is external: it keeps up to Delay frames before it gives one  *)
(* back, and any of its calls can fail.                                    *)
(***************************************************************************)
EXTENDS Naturals

CONSTANTS
  Delay,      \* the frames the codec keeps
  MaxFrames   \* bound of the model: images encoded

\* What the constructor allocates, in this order.
Resources == {"codecContext", "frame", "picture", "ctx"}

VARIABLES
  encoder,      \* "new", "live", "failed" (constructor), "destroyed", "crashed"
  memory,       \* each resource: "none", "live", or "freed"
  image,        \* the ScreenImage: "none", "live", or "null" (no XImage in it)
  out,          \* the Frame handed out, with its packet's data: "none" or "live"
  gotOutput,
  currentFrame,
  inside,       \* the frames the codec keeps
  delivered,    \* history: the Frames handed out
  stage,        \* the caller is "encoding", "draining", or "drained" (got NULL)
  broken        \* history: a call of the codec has failed

vars == <<encoder, memory, image, out, gotOutput, currentFrame, inside,
          delivered, stage, broken>>

progress == <<out, gotOutput, currentFrame, inside, delivered, stage>>

Init ==
  /\ encoder = "new"
  /\ memory = [m \in Resources |-> "none"]
  /\ image = "none"
  /\ out = "none"
  /\ gotOutput = FALSE
  /\ currentFrame = 0
  /\ inside = 0
  /\ delivered = 0
  /\ stage = "encoding"
  /\ broken = FALSE

Live == {m \in Resources : memory[m] = "live"}
Holding(S) == [m \in Resources |-> IF m \in S THEN "live" ELSE "none"]

-----------------------------------------------------------------------------
(* The constructor and Screen *)

\* sws_getContext() may return NULL, which is not noticed.
Construct ==
  /\ encoder = "new"
  /\ encoder' = "live"
  /\ \E scaler \in {{}, {"ctx"}} :
       memory' = Holding({"codecContext", "frame", "picture"} \cup scaler)
  /\ UNCHANGED <<image, progress, broken>>

\* One of the calls before that fails; each frees what was allocated, except
\* that the last one, av_image_alloc(), leaves the frame.
ConstructFails ==
  /\ encoder = "new"
  /\ encoder' = "failed"
  /\ \E left \in {{}, {"frame"}} : memory' = Holding(left)
  /\ UNCHANGED <<image, progress, broken>>

\* Screen::captureScreen(): what XGetImage() returns is not looked at.
Capture ==
  /\ image = "none"
  /\ image' \in {"live", "null"}
  /\ UNCHANGED <<encoder, memory, progress, broken>>

\* Screen::recycleScreen(), ~ScreenImage()
RecycleScreen ==
  /\ image = "live"
  /\ image' = "none"
  /\ UNCHANGED <<encoder, memory, progress, broken>>

-----------------------------------------------------------------------------

\* Mutant: the frame is not freed.
CleanContextOnly ==
  /\ {"codecContext", "frame"} \subseteq Live
  /\ memory' = [m \in Resources |->
                  IF m = "codecContext" THEN "freed" ELSE memory[m]]

\* clean(): the context, which stays pointed to, the picture and the frame.
Clean ==
  /\ {"codecContext", "frame"} \subseteq Live
  /\ memory' = [m \in Resources |->
                  IF m \in {"codecContext", "picture", "frame"} THEN "freed" ELSE memory[m]]

\* avcodec_encode_video2() with n frames in the codec has given one back, or
\* none.
Encoded(n, output) ==
  /\ gotOutput' = output
  /\ inside' = IF output THEN n - 1 ELSE n
  /\ out' = IF output THEN "live" ELSE "none"
  /\ delivered' = IF output THEN delivered + 1 ELSE delivered
  /\ UNCHANGED <<encoder, memory, broken>>

CodecUsable == encoder = "live" /\ "codecContext" \in Live

\* encodeFrame()
Encode ==
  /\ CodecUsable
  /\ out = "none"
  /\ image = "live"
  /\ "ctx" \in Live
  /\ stage = "encoding"
  /\ currentFrame < MaxFrames
  /\ currentFrame' = currentFrame + 1
  /\ Encoded(inside + 1, inside = Delay)
  /\ UNCHANGED <<image, stage>>

\* Mutant: the delayed frames are not asked for.
DrainOnce ==
  /\ encoder = "live"
  /\ out = "none"
  /\ IF gotOutput
     THEN CodecUsable /\ Encoded(inside, FALSE) /\ stage' = "drained"
     ELSE stage' = "drained" /\ UNCHANGED <<encoder, memory, broken, out, gotOutput, inside, delivered>>
  /\ UNCHANGED <<image, currentFrame>>

\* getDelayedFrames(): nothing is asked for unless the last call gave a frame.
Drain ==
  /\ encoder = "live"
  /\ out = "none"
  /\ IF gotOutput
     THEN CodecUsable /\ Encoded(inside, inside > 0) /\ stage' = (IF inside > 0 THEN "draining" ELSE "drained")
     ELSE stage' = "drained" /\ UNCHANGED <<encoder, memory, broken, out, gotOutput, inside, delivered>>
  /\ UNCHANGED <<image, currentFrame>>

\* The codec fails in either, and leaves gotOutput undefined: everything is
\* cleaned up, and the exception leaves the object to its owner.
CodecFails ==
  /\ CodecUsable
  /\ out = "none"
  /\ \/ /\ image = "live" /\ "ctx" \in Live
        /\ currentFrame < MaxFrames
        /\ currentFrame' = currentFrame + 1
     \/ gotOutput /\ UNCHANGED currentFrame
  /\ gotOutput' \in BOOLEAN
  /\ Clean
  /\ broken' = TRUE
  /\ UNCHANGED <<encoder, image, out, inside, delivered, stage>>

\* recycleFrame()
RecycleFrame ==
  /\ out = "live"
  /\ out' = "none"
  /\ UNCHANGED <<encoder, memory, image, gotOutput, currentFrame, inside,
                 delivered, stage, broken>>

\* ~FrameEncoder()
Destroy ==
  /\ encoder = "live"
  /\ out = "none"
  /\ Clean
  /\ encoder' = "destroyed"
  /\ UNCHANGED <<image, progress, broken>>

\* What was freed is used or freed again, something is NULL, or the first
\* time stamp divides by zero: in `currentFrame++ % currentFrame' the second
\* operand may be the old value.
Crash ==
  /\ \/ encoder = "live" /\ "codecContext" \notin Live
     \/ CodecUsable /\ "ctx" \notin Live /\ image # "none"
     \/ CodecUsable /\ currentFrame = 0 /\ image = "live"
     \/ image = "null"
  /\ encoder' = "crashed"
  /\ UNCHANGED <<memory, image, progress, broken>>

Next ==
  \/ /\ encoder # "crashed"
     /\ \/ Construct
        \/ ConstructFails
        \/ Capture
        \/ RecycleScreen
        \/ Encode
        \/ Drain
        \/ CodecFails
        \/ RecycleFrame
        \/ Destroy
        \/ Crash
  \/ encoder = "crashed" /\ UNCHANGED vars

SafeSpec == Init /\ [][Next]_vars

-----------------------------------------------------------------------------

TypeOK ==
  /\ encoder \in {"new", "live", "failed", "destroyed", "crashed"}
  /\ memory \in [Resources -> {"none", "live", "freed"}]
  /\ image \in {"none", "live", "null"}
  /\ out \in {"none", "live"}
  /\ gotOutput \in BOOLEAN /\ stage \in {"encoding", "draining", "drained"} /\ broken \in BOOLEAN
  /\ currentFrame \in 0 .. MaxFrames
  /\ delivered \in 0 .. MaxFrames
  /\ inside \in 0 .. Delay

\* No image is lost or comes out twice: gotOutput says whether the codec,
\* once it was full, has anything left.
FramesCounted ==
  IF broken THEN delivered + inside <= currentFrame
  ELSE /\ delivered + inside = currentFrame
       /\ stage = "encoding" =>
            /\ inside = (IF currentFrame > Delay THEN Delay ELSE currentFrame)
            /\ gotOutput <=> currentFrame > Delay
       /\ stage = "draining" => gotOutput /\ currentFrame > Delay
       /\ stage = "drained" =>
            /\ ~gotOutput
            /\ inside = (IF currentFrame > Delay THEN 0 ELSE currentFrame)

(***************************************************************************)
(* Types; what an encoder leaves behind is its scaler, or the frame of a   *)
(* constructor that failed; while it lives its context and its frame are   *)
(* freed only by a call of the codec that failed, and it is of no use      *)
(* after that.  The frames are counted right, which makes it inductive.    *)
(***************************************************************************)
EncoderInv ==
  /\ TypeOK
  /\ encoder = "destroyed" => Live \subseteq {"ctx"}
  /\ encoder = "failed" => Live \subseteq {"frame"}
  /\ encoder = "live" /\ ~broken =>
       {"codecContext", "frame", "picture"} \subseteq Live
  /\ broken => encoder \in {"live", "crashed"} /\ "codecContext" \notin Live
  /\ FramesCounted

(***************************************************************************)
(* Unless the codec has failed: once getDelayedFrames() has answered NULL  *)
(* every image has come out as a Frame, provided more were encoded than    *)
(* the codec keeps.  Of fewer none comes out, as encodeFrame() has then    *)
(* never set gotOutput.                                                    *)
(***************************************************************************)
AllDelivered ==
  stage = "drained" /\ ~broken => delivered = (IF currentFrame > Delay THEN currentFrame ELSE 0)
=============================================================================
