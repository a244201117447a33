----------------------------- MODULE JpegBuffers -----------------------------
(***************************************************************************)
(* The decoding of one JPEG frame after the other (Src/libjpeg.c): the     *)
(* task that runs AVI_test or JPEG_test, and the interrupts of the JPEG    *)
(* codec and of its two DMA streams, exchange data through two input and   *)
(* two output buffers.                                                     *)
(*                                                                         *)
(* The interrupts come between any two steps of the task, and many of them *)
(* may, because tasks of higher priority keep it from running.  The        *)
(* callbacks of the HAL themselves are not interrupted by each other: the  *)
(* DMA streams have the same priority and mask the codec's interrupt.      *)
(*                                                                         *)
(* A frame is Pieces input buffers long and gives Chunks output buffers,   *)
(* the last of which is longer than the codec's FIFO.  Reads and writes    *)
(* come in program order, as in the Debug build (-O0).                     *)
(***************************************************************************)
EXTENDS Naturals

CONSTANTS
  Chunks,   \* output buffers that a frame fills
  Pieces    \* input buffers that a frame takes

ASSUME FrameAssumption == Chunks \in Nat \ {0} /\ Pieces \in Nat \ {0}

VARIABLES
  pc,       \* the place of the task in its loop
  in,       \* Jpeg_IN_BufferTab: is the buffer full, which piece of the file is in it
  inRead, inWrite,     \* JPEG_IN_Read_BufferIndex, JPEG_IN_Write_BufferIndex
  inPaused,            \* Input_Is_Paused
  out,      \* Jpeg_OUT_BufferTab: State, DataBufferSize # 0, which chunk is in it
  outRead, outWrite,   \* JPEG_OUT_Read_BufferIndex, JPEG_OUT_Write_BufferIndex
  outPaused,           \* Output_Is_Paused
  block,    \* MCU_BlockIndex, in chunks
  busy,     \* hjpeg.State is HAL_JPEG_STATE_BUSY_DECODING
  jammed,   \* hjpeg.State is HAL_JPEG_STATE_TIMEOUT; otherwise it is READY
  context,  \* hjpeg.Context: which directions are paused
  copy,     \* the context that HAL_JPEG_Resume has read and not yet written back
  inDma,    \* the input stream: "off", "on", or "old" when it is left over from
            \* the frame before and feeds the codec data of that
  outDma,   \* the output stream runs; it fills the buffer outWrite
  fed, emitted,   \* the codec's progress: pieces taken, chunks put out
  torn      \* history: an interrupt came where the task was about to overwrite
            \* what it wrote, or to start a stream it had just stopped

buffers == <<in, inRead, inWrite, inPaused, out, outRead, outWrite, outPaused>>
codec == <<busy, jammed, context, inDma, outDma, fed, emitted>>
vars == <<pc, buffers, block, codec, copy, torn>>

Both == {0, 1}

Other(b) == IF b = 0 THEN 1 ELSE 0

-----------------------------------------------------------------------------
(* Interrupts. *)

\* Seeded fault: the other buffer is not looked at.
InDoneNeverPauses ==
  /\ busy /\ inDma # "off" /\ fed < Pieces /\ fed' = fed + 1
  /\ in' = [in EXCEPT ![inRead].full = FALSE]
  /\ inRead' = Other(inRead) /\ inDma' = "on"
  /\ UNCHANGED <<pc, inWrite, inPaused, context, out, outRead, outWrite, outPaused, block,
                 busy, jammed, copy, outDma, emitted, torn>>

\* HAL_JPEG_GetDataCallback, and what JPEG_DMAInCpltCallback does about it.
InDone ==
  /\ busy /\ inDma # "off" /\ fed < Pieces /\ fed' = fed + 1
  /\ in' = [in EXCEPT ![inRead].full = FALSE]
  /\ inRead' = Other(inRead)
  /\ IF in[inRead'].full
     THEN inDma' = "on" /\ UNCHANGED <<inPaused, context>>
     ELSE inDma' = "off" /\ inPaused' = TRUE /\ context' = context \cup {"in"}
  /\ UNCHANGED <<pc, inWrite, out, outRead, outWrite, outPaused, block, busy, jammed,
                 copy, outDma, emitted, torn>>

\* HAL_JPEG_DataReadyCallback: the other buffer is next.
DataReady ==
  /\ emitted' = emitted + 1 /\ outWrite' = Other(outWrite)
  /\ out' = [out EXCEPT ![outWrite] = [full |-> TRUE, size |-> TRUE, chunk |-> emitted']]

\* Seeded fault: the other buffer is not looked at.
OutDoneNeverPauses ==
  /\ outDma /\ emitted + 1 < Chunks /\ DataReady
  /\ UNCHANGED <<pc, in, inRead, inWrite, inPaused, outRead, outPaused, context, outDma,
                 block, busy, jammed, copy, inDma, fed, torn>>

\* Seeded fault: Output_Is_Paused is not set.
OutDoneSilently ==
  /\ outDma /\ emitted + 1 < Chunks /\ DataReady
  /\ IF out[Other(outWrite)].full
     THEN outDma' = FALSE /\ context' = context \cup {"out"}
     ELSE UNCHANGED <<outDma, context>>
  /\ UNCHANGED <<pc, in, inRead, inWrite, inPaused, outRead, outPaused, block, busy, jammed,
                 copy, inDma, fed, torn>>

\* JPEG_DMAOutCpltCallback: a buffer is full, and not the last one of the frame.
OutDone ==
  /\ outDma /\ emitted + 1 < Chunks /\ DataReady
  /\ IF out[Other(outWrite)].full
     THEN outDma' = FALSE /\ outPaused' = TRUE /\ context' = context \cup {"out"}
     ELSE UNCHANGED <<outDma, outPaused, context>>
  /\ UNCHANGED <<pc, in, inRead, inWrite, inPaused, outRead, block, busy, jammed, copy,
                 inDma, fed, torn>>

\* End of conversion: JPEG_DMA_ContinueProcess stops the streams, JPEG_DMA_EndProcess
\* hands over the last chunk.  The codec has all of the frame then, the last piece
\* perhaps not to its end.
EndOfConversion ==
  /\ outDma /\ emitted + 1 = Chunks /\ DataReady
  /\ fed = Pieces \/ (fed + 1 = Pieces /\ inDma # "off")
  /\ outPaused' = (outPaused \/ out[Other(outWrite)].full)
  /\ busy' = FALSE /\ context' = {} /\ inDma' = "off" /\ outDma' = FALSE
  /\ UNCHANGED <<pc, in, inRead, inWrite, inPaused, outRead, block, jammed, fed, copy,
                 torn>>

-----------------------------------------------------------------------------
(* The task: a frame begins. *)

Fresh == [full |-> FALSE, size |-> FALSE, chunk |-> 0]

\* AVI_test resets the tables and indices, JPEG_Decode_DMA fills the input buffers and
\* starts the codec, with the pause flags it has.  A codec that is not ready or a stream
\* that still runs refuses to start, which nobody looks at.
JPEG_Decode_DMA ==
  /\ pc = "idle" /\ pc' = "input"
  /\ in' = [b \in Both |-> [full |-> TRUE, piece |-> b + 1]]
  /\ out' = [b \in Both |-> Fresh]
  /\ inRead' = 0 /\ inWrite' = 0 /\ inPaused' = FALSE
  /\ outRead' = 0 /\ outWrite' = 0 /\ outPaused' = FALSE /\ block' = 0
  /\ IF busy
     THEN UNCHANGED codec
     ELSE /\ busy' = ~jammed /\ outDma' = ~jammed
          /\ inDma' = IF jammed THEN inDma ELSE IF inDma = "off" THEN "on" ELSE "old"
          /\ fed' = 0 /\ emitted' = 0 /\ UNCHANGED <<jammed, context>>
  /\ torn' = (inDma # "off") /\ UNCHANGED copy

-----------------------------------------------------------------------------
(* JPEG_InputHandler. *)

InputTest ==
  /\ pc = "input" /\ pc' = IF in[inWrite].full THEN "output" ELSE "reading"
  /\ UNCHANGED <<buffers, block, codec, copy, torn>>

\* The eight calls of f_read, and State = JPEG_BUFFER_FULL.
InputRead ==
  /\ pc = "reading" /\ pc' = "filled"
  /\ in' = [in EXCEPT ![inWrite] = [full |-> TRUE, piece |-> in[Other(inWrite)].piece + 1]]
  /\ UNCHANGED <<inRead, inWrite, inPaused, out, outRead, outWrite, outPaused, block,
                 codec, copy, torn>>

\* An f_read of JPEG_InputHandler or of JPEG_Decode_DMA fails: while(1).
OnError_Handler ==
  /\ pc \in {"idle", "reading", "stuck"} /\ pc' = "stuck"
  /\ UNCHANGED <<buffers, block, codec, copy, torn>>

\* The codec goes on if it waits for this buffer.
InputFilled ==
  /\ pc = "filled" /\ inWrite' = Other(inWrite)
  /\ IF inPaused /\ inWrite = inRead
     THEN inPaused' = FALSE /\ pc' = "resumeIn"
     ELSE pc' = "output" /\ UNCHANGED inPaused
  /\ UNCHANGED <<in, inRead, out, outRead, outWrite, outPaused, block, codec, copy, torn>>

-----------------------------------------------------------------------------
(* HAL_JPEG_Resume: reads Context, writes it back without the flag of the  *)
(* direction and starts the stream.                                        *)

\* Nothing is paused: HAL_ERROR, which nobody looks at.
ResumeReads(at, writes, next) ==
  /\ pc = at /\ copy' = context
  /\ pc' = IF context = {} THEN next ELSE writes
  /\ UNCHANGED <<buffers, block, codec, torn>>

ResumeInReads  == ResumeReads("resumeIn", "restartIn", "output")
ResumeOutReads == ResumeReads("resumeOut", "restartOut", "check")

\* Seeded fault: a pause of the output is forgotten.
ResumeInClearsContext ==
  /\ pc = "restartIn" /\ pc' = "startIn"
  /\ context' = {} /\ torn' = (torn \/ context # copy)
  /\ UNCHANGED <<buffers, block, busy, jammed, inDma, outDma, fed, emitted, copy>>

ResumeInWrites ==
  /\ pc = "restartIn" /\ pc' = "startIn"
  /\ context' = copy \ {"in"} /\ torn' = (torn \/ context # copy)
  /\ UNCHANGED <<buffers, block, busy, jammed, inDma, outDma, fed, emitted, copy>>

\* HAL_DMA_Start_IT, also if the conversion has just ended: then nothing stops the
\* stream any more.
ResumeInStarts ==
  /\ pc = "startIn" /\ pc' = "output"
  /\ inDma' = (IF inDma = "off" THEN "on" ELSE inDma) /\ torn' = (torn \/ ~busy)
  /\ UNCHANGED <<buffers, block, busy, jammed, context, outDma, fed, emitted, copy>>

ResumeOutWrites ==
  /\ pc = "restartOut" /\ pc' = "startOut"
  /\ context' = copy \ {"out"} /\ torn' = (torn \/ context # copy)
  /\ UNCHANGED <<buffers, block, busy, jammed, inDma, outDma, fed, emitted, copy>>

ResumeOutStarts ==
  /\ pc = "startOut" /\ pc' = "check" /\ outDma' = TRUE
  /\ UNCHANGED <<buffers, block, busy, jammed, context, inDma, fed, emitted, copy, torn>>

-----------------------------------------------------------------------------
(* JPEG_OutputHandler. *)

OutputTest ==
  /\ pc = "output"
  /\ IF out[outRead].full
     THEN pc' = "convert" /\ UNCHANGED outPaused
     ELSE IF outPaused /\ outWrite = outRead
          THEN pc' = "resumeOut" /\ outPaused' = FALSE
          ELSE pc' = "check" /\ UNCHANGED outPaused
  /\ UNCHANGED <<in, inRead, inWrite, inPaused, out, outRead, outWrite, block, codec,
                 copy, torn>>

\* pConvert_Function converts DataBufferSize bytes; then State = JPEG_BUFFER_EMPTY.
OutputConvert ==
  /\ pc = "convert" /\ pc' = "converted"
  /\ block' = IF out[outRead].size THEN block + 1 ELSE block
  /\ out' = [out EXCEPT ![outRead].full = FALSE]
  /\ UNCHANGED <<in, inRead, inWrite, inPaused, outRead, outWrite, outPaused, codec, copy,
                 torn>>

\* DataBufferSize = 0, which may already belong to the next chunk in this buffer.
OutputConverted ==
  /\ pc = "converted" /\ pc' = "check"
  /\ out' = [out EXCEPT ![outRead].size = FALSE] /\ torn' = (torn \/ out[outRead].full)
  /\ outRead' = Other(outRead)
  /\ UNCHANGED <<in, inRead, inWrite, inPaused, outWrite, outPaused, block, codec, copy>>

-----------------------------------------------------------------------------
(* The loop. *)

\* JpegProcessing_End: all of the frame is converted, or not yet.
GoOn ==
  /\ pc = "check" /\ pc' = IF block = Chunks THEN "idle" ELSE "input"
  /\ UNCHANGED <<buffers, block, codec, copy, torn>>

\* Seeded fault: the frame is left without HAL_JPEG_Abort.
TimeOutOnly ==
  /\ pc = "check" /\ pc' = "idle" /\ UNCHANGED <<buffers, block, codec, copy, torn>>

\* AVI_test only: two seconds are over.  HAL_JPEG_Abort stops the streams of a codec
\* that works; it gives up itself when the codec goes on for too long.
TimeOut ==
  /\ pc = "check" /\ pc' = "idle"
  /\ busy' = FALSE
  /\ inDma' = (IF busy THEN "off" ELSE inDma) /\ outDma' = (outDma /\ ~busy)
  /\ \/ jammed' = FALSE /\ context' = {}
     \/ (busy \/ jammed) /\ jammed' = TRUE /\ UNCHANGED context
  /\ UNCHANGED <<buffers, block, fed, emitted, copy, torn>>

-----------------------------------------------------------------------------
Init ==
  /\ pc = "idle" /\ block = 0 /\ busy = FALSE /\ jammed = FALSE
  /\ context = {} /\ copy = {}
  /\ in = [b \in Both |-> [full |-> FALSE, piece |-> 0]]
  /\ out = [b \in Both |-> Fresh]
  /\ inRead = 0 /\ inWrite = 0 /\ inPaused = FALSE
  /\ outRead = 0 /\ outWrite = 0 /\ outPaused = FALSE
  /\ inDma = "off" /\ outDma = FALSE /\ fed = 0 /\ emitted = 0 /\ torn = FALSE

Interrupt == InDone \/ OutDone \/ EndOfConversion

Handlers ==
  \/ InputTest \/ InputRead \/ InputFilled \/ ResumeInReads \/ ResumeInWrites
  \/ ResumeInStarts \/ OutputTest \/ ResumeOutReads \/ ResumeOutWrites \/ ResumeOutStarts
  \/ OutputConvert \/ OutputConverted
  \/ GoOn

Next == JPEG_Decode_DMA \/ Handlers \/ OnError_Handler \/ TimeOut \/ Interrupt

Spec == Init /\ [][Next]_vars

\* The task gets to run, the codec works as long as its streams do.  Two seconds
\* never have to pass.
FairSpec ==
  Spec /\ WF_vars(Handlers) /\ WF_vars(InDone) /\ WF_vars(OutDone) /\ WF_vars(EndOfConversion)

-----------------------------------------------------------------------------
Places ==
  {"idle", "input", "reading", "filled", "resumeIn", "restartIn", "startIn", "output",
   "convert", "converted", "resumeOut", "restartOut", "startOut", "check", "stuck"}

TypeOK ==
  /\ pc \in Places /\ block \in Nat
  /\ in \in [Both -> [full : BOOLEAN, piece : Nat]]
  /\ out \in [Both -> [full : BOOLEAN, size : BOOLEAN, chunk : Nat]]
  /\ inRead \in Both /\ inWrite \in Both /\ inPaused \in BOOLEAN
  /\ outRead \in Both /\ outWrite \in Both /\ outPaused \in BOOLEAN
  /\ busy \in BOOLEAN /\ jammed \in BOOLEAN /\ context \in SUBSET {"in", "out"}
  /\ copy \in SUBSET {"in", "out"} /\ inDma \in {"off", "on", "old"} /\ outDma \in BOOLEAN
  /\ fed \in Nat /\ emitted \in Nat /\ torn \in BOOLEAN

\* JPEG_OutputHandler converts the chunks of a frame in the order in which the codec
\* put them out, none left out, and never one that is just being written.
ChunksInOrder ==
  pc = "convert" /\ ~torn =>
    out[outRead].size /\ out[outRead].chunk = block + 1 /\ ~(outDma /\ outWrite = outRead)

\* The codec gets the pieces of the file in their order, and JPEG_InputHandler never
\* reads into a buffer that is just being sent.
PiecesInOrder ==
  busy /\ inDma # "off" /\ ~torn =>
    /\ inDma = "on" /\ in[inRead].full /\ in[inRead].piece = fed + 1
    /\ ~(pc = "reading" /\ inWrite = inRead)

\* When a frame is left, by its end or by the timeout, the codec and both streams are
\* at rest, and no flag of a pause is left over for the next frame, unless an interrupt
\* came in the middle of HAL_JPEG_Resume.  HAL_JPEG_Decode_DMA takes the next frame
\* then; if HAL_JPEG_Abort has given the codec up, it refuses every frame until another
\* timeout.
CodecAtRest ==
  pc = "idle" /\ ~torn =>
    ~busy /\ inDma = "off" /\ ~outDma /\ (context = {} \/ jammed)

\* The buffers that JPEG_InputHandler fills and JPEG_OutputHandler converts next, as soon
\* as they have moved the index on.
NextIn == IF pc = "filled" THEN Other(inWrite) ELSE inWrite
NextOut == IF pc = "converted" THEN Other(outRead) ELSE outRead

\* A stream that a callback stopped in the middle of a frame is started again: the task
\* is about to start it, or its flag in the context is up, and the task either resumes it
\* already or has both the request (Input_Is_Paused, Output_Is_Paused) and the buffer it
\* waits for before it.
NoPauseMissed ==
  busy /\ ~torn =>
    /\ inDma = "off" /\ fed < Pieces /\ pc # "startIn" =>
         /\ "in" \in context
         /\ \/ pc \in {"resumeIn", "restartIn"}
            \/ /\ inPaused
               /\ IF pc = "filled" /\ inWrite = inRead
                  THEN in[inRead].full
                  ELSE ~in[inRead].full /\ NextIn = inRead
    /\ ~outDma /\ pc # "startOut" =>
         /\ "out" \in context
         /\ \/ pc \in {"resumeOut", "restartOut"}
            \/ outPaused /\ (out[NextOut].full \/ outWrite = NextOut)

\* No pause is missed: a frame ends without the timeout, if the file can be read and the
\* codec was not given up in a frame before.
FrameEnds == pc = "input" ~> (pc \in {"idle", "stuck"} \/ torn \/ jammed)

=============================================================================
