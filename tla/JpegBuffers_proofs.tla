------------------------- MODULE JpegBuffers_proofs -------------------------
(***************************************************************************)
(* Proofs about JpegBuffers.  Both pairs of buffers are queues of length   *)
(* two; the invariants say where in them the task and the codec are.       *)
(***************************************************************************)
EXTENDS JpegBuffers, TLAPS

InHeld ==
  IF in[0].full /\ in[1].full THEN 2 ELSE IF in[0].full \/ in[1].full THEN 1 ELSE 0

\* The input buffers are filled and sent in turn, and their pieces are in order.
InQueue ==
  /\ in[Other(inRead)].full => in[inRead].full
  /\ NextIn = IF in[0].full # in[1].full THEN Other(inRead) ELSE inRead
  /\ in[inRead].full => in[inRead].piece = fed + 1
  /\ in[Other(NextIn)].piece = fed + InHeld

\* Where the input stream stands with respect to the task.
InPlace ==
  /\ inDma # "off" => in[inRead].full
  /\ inPaused => inDma = "off"
  /\ pc \in {"resumeIn", "restartIn", "startIn"} =>
       in[inRead].full /\ inDma = "off" /\ ~inPaused
  /\ pc = "reading" => ~in[inWrite].full
  /\ pc \in {"restartIn", "restartOut"} => copy # {}

OutHeld ==
  IF out[0].full /\ out[1].full THEN 2 ELSE IF out[0].full \/ out[1].full THEN 1 ELSE 0

\* Whatever was torn: no chunk is overwritten, and none is converted twice.
OutPlace ==
  /\ outDma => busy /\ ~out[outWrite].full
  /\ busy => emitted < Chunks
  /\ outPaused => ~outDma
  /\ pc \in {"resumeOut", "restartOut", "startOut"} =>
       ~out[outWrite].full /\ ~outDma /\ outWrite = outRead /\ ~outPaused
  /\ pc = "convert" => out[outRead].full
  /\ block + OutHeld <= emitted
  /\ pc = "idle" => ~busy

\* Whatever was torn: a pause of the output that HAL_JPEG_Resume has seen is one, and
\* what it clears belongs to a codec that works.
Contexts ==
  /\ "out" \in context => ~outDma
  /\ pc = "restartIn" /\ "out" \in copy => ~outDma
  /\ ~busy /\ ~jammed => context = {}
  /\ ~busy /\ pc = "restartIn" => copy = {"in"}
  /\ pc \in {"restartOut", "startOut"} => busy
  /\ pc = "startOut" => "out" \notin context

\* A codec that HAL_JPEG_Abort has given up does nothing: the task goes round its loop with
\* two full input buffers until the timeout, and resumes nothing.
Jam ==
  jammed =>
    /\ ~busy /\ inDma = "off" /\ ~outDma
    /\ pc \in {"idle", "stuck"} \/ (~inPaused /\ ~outPaused)
    /\ pc \notin {"resumeIn", "restartIn", "startIn", "resumeOut", "restartOut", "startOut"}

\* The output buffers are filled and converted in turn, and their chunks are in order.
OutQueue ==
  /\ out[NextOut].full => out[NextOut].size /\ out[NextOut].chunk = block + 1
  /\ out[Other(NextOut)].full =>
       out[NextOut].full /\ out[Other(NextOut)].size /\ out[Other(NextOut)].chunk = block + 2
  /\ outWrite = IF out[0].full # out[1].full THEN Other(NextOut) ELSE NextOut
  /\ emitted = block + OutHeld

\* After the end of conversion nothing is left running.
AtRest == inDma # "old" /\ (~busy => inDma = "off")

\* A stream stands still only with its flags up.
Noticed ==
  /\ busy /\ inDma = "off" /\ fed < Pieces /\ pc # "startIn" =>
       /\ "in" \in context
       /\ \/ pc \in {"resumeIn", "restartIn"}
          \/ inPaused /\ (in[inRead].full => pc = "filled" /\ inWrite = inRead)
  /\ busy /\ ~outDma /\ pc # "startOut" =>
       "out" \in context /\ (outPaused \/ pc \in {"resumeOut", "restartOut"})

Inv ==
  /\ TypeOK /\ InQueue /\ InPlace /\ OutPlace /\ Contexts /\ Jam
  /\ ~torn => OutQueue /\ AtRest /\ Noticed

-----------------------------------------------------------------------------
\* Every variable keeps its type.
LEMMA TypeStep ==
  ASSUME TypeOK, [Next]_vars
  PROVE  TypeOK'
  <1> USE FrameAssumption DEF TypeOK, Both, buffers, codec, Other, Fresh, Places
  <1>1. CASE JPEG_Decode_DMA
    <2>1. in' \in [Both -> [full : BOOLEAN, piece : Nat]]
      BY <1>1 DEF JPEG_Decode_DMA
    <2>2. out' \in [Both -> [full : BOOLEAN, size : BOOLEAN, chunk : Nat]]
      BY <1>1 DEF JPEG_Decode_DMA
    <2>3. /\ pc' \in Places /\ block' \in Nat
          /\ inRead' \in Both /\ inWrite' \in Both /\ inPaused' \in BOOLEAN
          /\ outRead' \in Both /\ outWrite' \in Both /\ outPaused' \in BOOLEAN
      BY <1>1 DEF JPEG_Decode_DMA
    <2>4. copy' \in SUBSET {"in", "out"}
      BY <1>1 DEF JPEG_Decode_DMA
    <2>5. torn' \in BOOLEAN
      BY <1>1 DEF JPEG_Decode_DMA
    <2>6. busy' \in BOOLEAN /\ jammed' \in BOOLEAN /\ inDma' \in {"off", "on", "old"} /\ outDma' \in BOOLEAN
      BY <1>1 DEF JPEG_Decode_DMA
    <2>7. fed' \in Nat /\ emitted' \in Nat
      BY <1>1 DEF JPEG_Decode_DMA
    <2>8. context' \in SUBSET {"in", "out"}
      BY <1>1 DEF JPEG_Decode_DMA
    <2> QED
      BY <2>1, <2>2, <2>3, <2>4, <2>5, <2>6, <2>7, <2>8
  <1>2. CASE InputTest
    BY <1>2 DEF InputTest
  <1>3. CASE InputRead
    BY <1>3 DEF InputRead
  <1>4. CASE InputFilled
    <2>1. inWrite' \in Both
      BY <1>4 DEF InputFilled
    <2> QED
      BY <1>4, <2>1 DEF InputFilled
  <1>5. CASE ResumeInReads
    BY <1>5 DEF ResumeInReads, ResumeReads
  <1>6. CASE ResumeInWrites
    BY <1>6 DEF ResumeInWrites
  <1>7. CASE OutputTest
    BY <1>7 DEF OutputTest
  <1>8. CASE ResumeOutReads
    BY <1>8 DEF ResumeOutReads, ResumeReads
  <1>9. CASE ResumeOutWrites
    BY <1>9 DEF ResumeOutWrites
  <1>10. CASE OutputConvert
    <2>1. out' \in [Both -> [full : BOOLEAN, size : BOOLEAN, chunk : Nat]]
      BY <1>10 DEF OutputConvert
    <2>2. block' \in Nat
      BY <1>10 DEF OutputConvert
    <2> QED
      BY <1>10, <2>1, <2>2 DEF OutputConvert
  <1>11. CASE OutputConverted
    <2>1. out' \in [Both -> [full : BOOLEAN, size : BOOLEAN, chunk : Nat]]
      BY <1>11 DEF OutputConverted
    <2>2. outRead' \in Both /\ torn' \in BOOLEAN
      BY <1>11 DEF OutputConverted
    <2> QED
      BY <1>11, <2>1, <2>2 DEF OutputConverted
  <1>12. CASE GoOn
    BY <1>12 DEF GoOn
  <1>13. CASE TimeOut
    BY <1>13 DEF TimeOut
  <1>14. CASE InDone
    <2>0. in' = [in EXCEPT ![inRead].full = FALSE]
      BY <1>14 DEF InDone
    <2>1. in' \in [Both -> [full : BOOLEAN, piece : Nat]]
      BY <2>0
    <2>2. inRead' \in Both /\ fed' \in Nat
      BY <1>14 DEF InDone
    <2>3. inDma' \in {"off", "on"} /\ inPaused' \in BOOLEAN
      BY <1>14 DEF InDone
    <2>4. context' \in SUBSET {"in", "out"}
      BY <1>14 DEF InDone
    <2> QED
      BY <1>14, <2>1, <2>2, <2>3, <2>4 DEF InDone
  <1>15. CASE OutDone
    <2>1. out' \in [Both -> [full : BOOLEAN, size : BOOLEAN, chunk : Nat]]
      BY <1>15 DEF OutDone, DataReady
    <2>2. outWrite' \in Both /\ emitted' \in Nat
      BY <1>15 DEF OutDone, DataReady
    <2>3. outPaused' \in BOOLEAN /\ outDma' \in BOOLEAN
      BY <1>15 DEF OutDone
    <2>4. context' \in SUBSET {"in", "out"}
      BY <1>15 DEF OutDone
    <2> QED
      BY <1>15, <2>1, <2>2, <2>3, <2>4 DEF OutDone
  <1>16. CASE EndOfConversion
    <2>1. out' \in [Both -> [full : BOOLEAN, size : BOOLEAN, chunk : Nat]]
      BY <1>16 DEF EndOfConversion, DataReady
    <2>2. outWrite' \in Both /\ emitted' \in Nat
      BY <1>16 DEF EndOfConversion, DataReady
    <2>3. outPaused' \in BOOLEAN /\ outDma' \in BOOLEAN
      BY <1>16 DEF EndOfConversion
    <2>4. context' \in SUBSET {"in", "out"}
      BY <1>16 DEF EndOfConversion
    <2> QED
      BY <1>16, <2>1, <2>2, <2>3, <2>4 DEF EndOfConversion
  <1>17. CASE ResumeInStarts
    BY <1>17 DEF ResumeInStarts
  <1>18. CASE ResumeOutStarts
    BY <1>18 DEF ResumeOutStarts
  <1>19. CASE OnError_Handler
    BY <1>19 DEF OnError_Handler
  <1>20. CASE UNCHANGED vars
    BY <1>20 DEF vars
  <1> QED
    BY <1>1, <1>2, <1>3, <1>4, <1>5, <1>6, <1>7, <1>8, <1>9, <1>10, <1>11,
       <1>12, <1>13, <1>14, <1>15, <1>16, <1>17, <1>18, <1>19, <1>20
       DEF Next, Handlers, Interrupt

\* The input side, whatever the output side does.
LEMMA InStep ==
  ASSUME TypeOK, OutPlace, InQueue, InPlace, [Next]_vars
  PROVE  InQueue' /\ InPlace'
  <1> USE FrameAssumption DEF TypeOK, Both, buffers, codec, Other, Fresh, Places,
      InQueue, InPlace, InHeld, NextIn
  <1>1. CASE JPEG_Decode_DMA
    <2>1. /\ in'[0].full /\ in'[0].piece = 1
          /\ in'[1].full /\ in'[1].piece = 2
      BY <1>1 DEF JPEG_Decode_DMA
    <2>2. /\ pc' = "input" /\ fed' = 0
          /\ inRead' = 0 /\ inWrite' = 0 /\ inPaused' = FALSE
      BY <1>1 DEF JPEG_Decode_DMA, OutPlace
    <2> QED
      BY <2>1, <2>2
  <1>2. CASE InputTest
    BY <1>2 DEF InputTest
  <1>3. CASE InputRead
    <2>1. /\ fed \in Nat /\ inRead \in Both /\ inWrite \in Both
          /\ in[0].full \in BOOLEAN /\ in[0].piece \in Nat
          /\ in[1].full \in BOOLEAN /\ in[1].piece \in Nat
      OBVIOUS
    <2>2. /\ pc = "reading" /\ pc' = "filled" /\ inDma' = inDma /\ inRead' = inRead
          /\ inWrite' = inWrite /\ inPaused' = inPaused /\ fed' = fed
      BY <1>3 DEF InputRead
    <2>3. CASE inWrite = 0
      <3>1. /\ in'[0].full = TRUE /\ in'[0].piece = in[1].piece + 1
            /\ in'[1].full = in[1].full /\ in'[1].piece = in[1].piece
        BY <1>3, <2>3 DEF InputRead
      <3> HIDE DEF TypeOK
      <3>2. (in[Other(inRead)].full => in[inRead].full)'
        BY <2>3, <2>1, <2>2, <3>1
      <3>3. (NextIn = IF in[0].full # in[1].full THEN Other(inRead) ELSE inRead)'
        BY <2>3, <2>1, <2>2, <3>1
      <3>4. (in[inRead].full => in[inRead].piece = fed + 1)'
        BY <2>3, <2>1, <2>2, <3>1
      <3>5. (in[Other(NextIn)].piece = fed + InHeld)'
        BY <2>3, <2>1, <2>2, <3>1
      <3>6. InPlace'
        BY <2>3, <2>1, <2>2, <3>1
      <3> QED
        BY <3>2, <3>3, <3>4, <3>5, <3>6
    <2>4. CASE inWrite = 1
      <3>1. /\ in'[1].full = TRUE /\ in'[1].piece = in[0].piece + 1
            /\ in'[0].full = in[0].full /\ in'[0].piece = in[0].piece
        BY <1>3, <2>4 DEF InputRead
      <3> HIDE DEF TypeOK
      <3>2. (in[Other(inRead)].full => in[inRead].full)'
        BY <2>4, <2>1, <2>2, <3>1
      <3>3. (NextIn = IF in[0].full # in[1].full THEN Other(inRead) ELSE inRead)'
        BY <2>4, <2>1, <2>2, <3>1
      <3>4. (in[inRead].full => in[inRead].piece = fed + 1)'
        BY <2>4, <2>1, <2>2, <3>1
      <3>5. (in[Other(NextIn)].piece = fed + InHeld)'
        BY <2>4, <2>1, <2>2, <3>1
      <3>6. InPlace'
        BY <2>4, <2>1, <2>2, <3>1
      <3> QED
        BY <3>2, <3>3, <3>4, <3>5, <3>6
    <2> QED
      BY <2>3, <2>4
  <1>4. CASE InputFilled
    BY <1>4 DEF InputFilled
  <1>5. CASE ResumeInReads
    BY <1>5 DEF ResumeInReads, ResumeReads
  <1>6. CASE ResumeInWrites
    BY <1>6 DEF ResumeInWrites
  <1>7. CASE OutputTest
    BY <1>7 DEF OutputTest
  <1>8. CASE ResumeOutReads
    BY <1>8 DEF ResumeOutReads, ResumeReads
  <1>9. CASE ResumeOutWrites
    BY <1>9 DEF ResumeOutWrites
  <1>10. CASE OutputConvert
    BY <1>10 DEF OutputConvert
  <1>11. CASE OutputConverted
    BY <1>11 DEF OutputConverted
  <1>12. CASE GoOn
    BY <1>12 DEF GoOn
  <1>13. CASE TimeOut
    BY <1>13 DEF TimeOut
  <1>14. CASE InDone
    <2>1. /\ fed \in Nat /\ inRead \in Both /\ inWrite \in Both
          /\ in[0].full \in BOOLEAN /\ in[0].piece \in Nat
          /\ in[1].full \in BOOLEAN /\ in[1].piece \in Nat
      OBVIOUS
    <2>2. /\ in[inRead].full /\ pc \notin {"resumeIn", "restartIn", "startIn"} /\ pc' = pc
          /\ inRead' = Other(inRead) /\ inWrite' = inWrite /\ fed' = fed + 1 /\ copy' = copy
          /\ IF in[Other(inRead)].full
             THEN inDma' = "on" /\ inPaused' = inPaused
             ELSE inDma' = "off" /\ inPaused' = TRUE
          /\ inDma # "off"
      BY <1>14 DEF InDone
    <2>3. CASE inRead = 0
      <3>1. /\ in'[0].full = FALSE /\ in'[0].piece = in[0].piece
            /\ in'[1].full = in[1].full /\ in'[1].piece = in[1].piece
        BY <1>14, <2>3 DEF InDone
      <3> HIDE DEF TypeOK
      <3>2. (in[Other(inRead)].full => in[inRead].full)'
        BY <2>3, <2>1, <2>2, <3>1
      <3>3. (NextIn = IF in[0].full # in[1].full THEN Other(inRead) ELSE inRead)'
        BY <2>3, <2>1, <2>2, <3>1
      <3>4. (in[inRead].full => in[inRead].piece = fed + 1)'
        BY <2>3, <2>1, <2>2, <3>1
      <3>5. (in[Other(NextIn)].piece = fed + InHeld)'
        BY <2>3, <2>1, <2>2, <3>1
      <3>6. InPlace'
        BY <2>3, <2>1, <2>2, <3>1
      <3> QED
        BY <3>2, <3>3, <3>4, <3>5, <3>6
    <2>4. CASE inRead = 1
      <3>1. /\ in'[1].full = FALSE /\ in'[1].piece = in[1].piece
            /\ in'[0].full = in[0].full /\ in'[0].piece = in[0].piece
        BY <1>14, <2>4 DEF InDone
      <3> HIDE DEF TypeOK
      <3>2. (in[Other(inRead)].full => in[inRead].full)'
        BY <2>4, <2>1, <2>2, <3>1
      <3>3. (NextIn = IF in[0].full # in[1].full THEN Other(inRead) ELSE inRead)'
        BY <2>4, <2>1, <2>2, <3>1
      <3>4. (in[inRead].full => in[inRead].piece = fed + 1)'
        BY <2>4, <2>1, <2>2, <3>1
      <3>5. (in[Other(NextIn)].piece = fed + InHeld)'
        BY <2>4, <2>1, <2>2, <3>1
      <3>6. InPlace'
        BY <2>4, <2>1, <2>2, <3>1
      <3> QED
        BY <3>2, <3>3, <3>4, <3>5, <3>6
    <2> QED
      BY <2>3, <2>4
  <1>15. CASE OutDone
    BY <1>15 DEF OutDone, DataReady
  <1>16. CASE EndOfConversion
    BY <1>16 DEF EndOfConversion, DataReady
  <1>17. CASE ResumeInStarts
    BY <1>17 DEF ResumeInStarts
  <1>18. CASE ResumeOutStarts
    BY <1>18 DEF ResumeOutStarts
  <1>19. CASE OnError_Handler
    BY <1>19 DEF OnError_Handler
  <1>20. CASE UNCHANGED vars
    BY <1>20 DEF vars
  <1> QED
    BY <1>1, <1>2, <1>3, <1>4, <1>5, <1>6, <1>7, <1>8, <1>9, <1>10, <1>11,
       <1>12, <1>13, <1>14, <1>15, <1>16, <1>17, <1>18, <1>19, <1>20
       DEF Next, Handlers, Interrupt

\* The output side, whatever was torn.
LEMMA OutStep ==
  ASSUME TypeOK, OutPlace, Contexts, [Next]_vars
  PROVE  OutPlace'
  <1> USE FrameAssumption DEF TypeOK, Both, buffers, codec, Other, Fresh, Places,
      OutPlace, OutHeld, Contexts
  <1>1. CASE JPEG_Decode_DMA
    BY <1>1 DEF JPEG_Decode_DMA
  <1>2. CASE InputTest
    BY <1>2 DEF InputTest
  <1>3. CASE InputRead
    BY <1>3 DEF InputRead
  <1>4. CASE InputFilled
    BY <1>4 DEF InputFilled
  <1>5. CASE ResumeInReads
    BY <1>5 DEF ResumeInReads, ResumeReads
  <1>6. CASE ResumeInWrites
    BY <1>6 DEF ResumeInWrites
  <1>7. CASE OutputTest
    BY <1>7 DEF OutputTest
  <1>8. CASE ResumeOutReads
    BY <1>8 DEF ResumeOutReads, ResumeReads
  <1>9. CASE ResumeOutWrites
    BY <1>9 DEF ResumeOutWrites
  <1>10. CASE OutputConvert
    BY <1>10 DEF OutputConvert
  <1>11. CASE OutputConverted
    BY <1>11 DEF OutputConverted
  <1>12. CASE GoOn
    BY <1>12 DEF GoOn
  <1>13. CASE TimeOut
    BY <1>13 DEF TimeOut
  <1>14. CASE InDone
    BY <1>14 DEF InDone
  <1>15. CASE OutDone
    <2>1. /\ block \in Nat /\ emitted \in Nat /\ outRead \in Both /\ outWrite \in Both
          /\ out[0].full \in BOOLEAN /\ out[0].size \in BOOLEAN /\ out[0].chunk \in Nat
          /\ out[1].full \in BOOLEAN /\ out[1].size \in BOOLEAN /\ out[1].chunk \in Nat
      OBVIOUS
    <2>2. /\ outDma /\ emitted + 1 < Chunks /\ emitted' = emitted + 1
          /\ outWrite' = Other(outWrite) /\ outRead' = outRead /\ pc' = pc
          /\ block' = block /\ busy' = busy /\ torn' = torn
          /\ IF out[Other(outWrite)].full
             THEN outDma' = FALSE /\ outPaused' = TRUE
             ELSE outDma' = outDma /\ outPaused' = outPaused
      BY <1>15 DEF OutDone, DataReady
    <2>3. CASE outWrite = 0
      <3>1. /\ out'[0].full = TRUE /\ out'[0].size = TRUE /\ out'[0].chunk = emitted + 1
            /\ out'[1].full = out[1].full /\ out'[1].size = out[1].size
            /\ out'[1].chunk = out[1].chunk
        BY <1>15, <2>3 DEF OutDone, DataReady
      <3> HIDE DEF TypeOK
      <3>2. (outDma => busy /\ ~out[outWrite].full)'
        BY <2>3, <2>1, <2>2, <3>1
      <3>3. (busy => emitted < Chunks)' /\ (outPaused => ~outDma)'
        BY <2>3, <2>1, <2>2, <3>1
      <3>4. (pc \in {"resumeOut", "restartOut", "startOut"} =>
                ~out[outWrite].full /\ ~outDma /\ outWrite = outRead /\ ~outPaused)'
        BY <2>3, <2>1, <2>2, <3>1
      <3>5. (pc = "convert" => out[outRead].full)' /\ (pc = "idle" => ~busy)'
        BY <2>3, <2>1, <2>2, <3>1
      <3>6. (block + OutHeld <= emitted)'
        BY <2>3, <2>1, <2>2, <3>1
      <3> QED
        BY <3>2, <3>3, <3>4, <3>5, <3>6
    <2>4. CASE outWrite = 1
      <3>1. /\ out'[1].full = TRUE /\ out'[1].size = TRUE /\ out'[1].chunk = emitted + 1
            /\ out'[0].full = out[0].full /\ out'[0].size = out[0].size
            /\ out'[0].chunk = out[0].chunk
        BY <1>15, <2>4 DEF OutDone, DataReady
      <3> HIDE DEF TypeOK
      <3>2. (outDma => busy /\ ~out[outWrite].full)'
        BY <2>4, <2>1, <2>2, <3>1
      <3>3. (busy => emitted < Chunks)' /\ (outPaused => ~outDma)'
        BY <2>4, <2>1, <2>2, <3>1
      <3>4. (pc \in {"resumeOut", "restartOut", "startOut"} =>
                ~out[outWrite].full /\ ~outDma /\ outWrite = outRead /\ ~outPaused)'
        BY <2>4, <2>1, <2>2, <3>1
      <3>5. (pc = "convert" => out[outRead].full)' /\ (pc = "idle" => ~busy)'
        BY <2>4, <2>1, <2>2, <3>1
      <3>6. (block + OutHeld <= emitted)'
        BY <2>4, <2>1, <2>2, <3>1
      <3> QED
        BY <3>2, <3>3, <3>4, <3>5, <3>6
    <2> QED
      BY <2>3, <2>4
  <1>16. CASE EndOfConversion
    <2>1. /\ block \in Nat /\ emitted \in Nat /\ outRead \in Both /\ outWrite \in Both
          /\ out[0].full \in BOOLEAN /\ out[0].size \in BOOLEAN /\ out[0].chunk \in Nat
          /\ out[1].full \in BOOLEAN /\ out[1].size \in BOOLEAN /\ out[1].chunk \in Nat
      OBVIOUS
    <2>2. /\ outDma /\ emitted + 1 = Chunks /\ emitted' = emitted + 1
          /\ outWrite' = Other(outWrite) /\ outRead' = outRead /\ pc' = pc
          /\ block' = block /\ busy' = FALSE /\ torn' = torn /\ outDma' = FALSE
      BY <1>16 DEF EndOfConversion, DataReady
    <2>3. CASE outWrite = 0
      <3>1. /\ out'[0].full = TRUE /\ out'[0].size = TRUE /\ out'[0].chunk = emitted + 1
            /\ out'[1].full = out[1].full /\ out'[1].size = out[1].size
            /\ out'[1].chunk = out[1].chunk
        BY <1>16, <2>3 DEF EndOfConversion, DataReady
      <3> HIDE DEF TypeOK
      <3>2. (outDma => busy /\ ~out[outWrite].full)'
        BY <2>3, <2>1, <2>2, <3>1
      <3>3. (busy => emitted < Chunks)' /\ (outPaused => ~outDma)'
        BY <2>3, <2>1, <2>2, <3>1
      <3>4. (pc \in {"resumeOut", "restartOut", "startOut"} =>
                ~out[outWrite].full /\ ~outDma /\ outWrite = outRead /\ ~outPaused)'
        BY <2>3, <2>1, <2>2, <3>1
      <3>5. (pc = "convert" => out[outRead].full)' /\ (pc = "idle" => ~busy)'
        BY <2>3, <2>1, <2>2, <3>1
      <3>6. (block + OutHeld <= emitted)'
        BY <2>3, <2>1, <2>2, <3>1
      <3> QED
        BY <3>2, <3>3, <3>4, <3>5, <3>6
    <2>4. CASE outWrite = 1
      <3>1. /\ out'[1].full = TRUE /\ out'[1].size = TRUE /\ out'[1].chunk = emitted + 1
            /\ out'[0].full = out[0].full /\ out'[0].size = out[0].size
            /\ out'[0].chunk = out[0].chunk
        BY <1>16, <2>4 DEF EndOfConversion, DataReady
      <3> HIDE DEF TypeOK
      <3>2. (outDma => busy /\ ~out[outWrite].full)'
        BY <2>4, <2>1, <2>2, <3>1
      <3>3. (busy => emitted < Chunks)' /\ (outPaused => ~outDma)'
        BY <2>4, <2>1, <2>2, <3>1
      <3>4. (pc \in {"resumeOut", "restartOut", "startOut"} =>
                ~out[outWrite].full /\ ~outDma /\ outWrite = outRead /\ ~outPaused)'
        BY <2>4, <2>1, <2>2, <3>1
      <3>5. (pc = "convert" => out[outRead].full)' /\ (pc = "idle" => ~busy)'
        BY <2>4, <2>1, <2>2, <3>1
      <3>6. (block + OutHeld <= emitted)'
        BY <2>4, <2>1, <2>2, <3>1
      <3> QED
        BY <3>2, <3>3, <3>4, <3>5, <3>6
    <2> QED
      BY <2>3, <2>4
  <1>17. CASE ResumeInStarts
    BY <1>17 DEF ResumeInStarts
  <1>18. CASE ResumeOutStarts
    BY <1>18 DEF ResumeOutStarts
  <1>19. CASE OnError_Handler
    BY <1>19 DEF OnError_Handler
  <1>20. CASE UNCHANGED vars
    BY <1>20 DEF vars
  <1> QED
    BY <1>1, <1>2, <1>3, <1>4, <1>5, <1>6, <1>7, <1>8, <1>9, <1>10, <1>11,
       <1>12, <1>13, <1>14, <1>15, <1>16, <1>17, <1>18, <1>19, <1>20
       DEF Next, Handlers, Interrupt

\* The flags of HAL_JPEG_Pause.
LEMMA ContextStep ==
  ASSUME TypeOK, InPlace, OutPlace, Contexts, Jam, [Next]_vars
  PROVE  Contexts'
  <1> USE FrameAssumption DEF TypeOK, Both, buffers, codec, Other, Fresh, Places,
      InPlace, OutPlace, Contexts, Jam
  <1>1. CASE JPEG_Decode_DMA
    BY <1>1 DEF JPEG_Decode_DMA
  <1>2. CASE InputTest
    BY <1>2 DEF InputTest
  <1>3. CASE InputRead
    BY <1>3 DEF InputRead
  <1>4. CASE InputFilled
    BY <1>4 DEF InputFilled
  <1>5. CASE ResumeInReads
    BY <1>5 DEF ResumeInReads, ResumeReads
  <1>6. CASE ResumeInWrites
    BY <1>6 DEF ResumeInWrites
  <1>7. CASE OutputTest
    BY <1>7 DEF OutputTest
  <1>8. CASE ResumeOutReads
    BY <1>8 DEF ResumeOutReads, ResumeReads
  <1>9. CASE ResumeOutWrites
    BY <1>9 DEF ResumeOutWrites
  <1>10. CASE OutputConvert
    BY <1>10 DEF OutputConvert
  <1>11. CASE OutputConverted
    BY <1>11 DEF OutputConverted
  <1>12. CASE GoOn
    BY <1>12 DEF GoOn
  <1>13. CASE TimeOut
    BY <1>13 DEF TimeOut
  <1>14. CASE InDone
    BY <1>14 DEF InDone
  <1>15. CASE OutDone
    BY <1>15 DEF OutDone, DataReady
  <1>16. CASE EndOfConversion
    <2>1. outDma /\ busy
      BY <1>16 DEF EndOfConversion
    <2>2. pc = "restartIn" => copy = {"in"}
      <3> SUFFICES ASSUME pc = "restartIn" PROVE copy = {"in"}
        OBVIOUS
      <3>1. "out" \notin copy /\ copy # {}
        BY <2>1
      <3>2. \A x \in copy : x = "in"
        BY <3>1
      <3>3. "in" \in copy
        BY <3>1, <3>2
      <3> QED
        BY <3>2, <3>3
    <2>3. context' = {} /\ ~outDma' /\ pc' = pc /\ copy' = copy
      BY <1>16 DEF EndOfConversion
    <2> QED
      BY <2>1, <2>2, <2>3
  <1>17. CASE ResumeInStarts
    BY <1>17 DEF ResumeInStarts
  <1>18. CASE ResumeOutStarts
    BY <1>18 DEF ResumeOutStarts
  <1>19. CASE OnError_Handler
    BY <1>19 DEF OnError_Handler
  <1>20. CASE UNCHANGED vars
    BY <1>20 DEF vars
  <1> QED
    BY <1>1, <1>2, <1>3, <1>4, <1>5, <1>6, <1>7, <1>8, <1>9, <1>10, <1>11,
       <1>12, <1>13, <1>14, <1>15, <1>16, <1>17, <1>18, <1>19, <1>20
       DEF Next, Handlers, Interrupt

\* The codec that was given up.
LEMMA JamStep ==
  ASSUME TypeOK, OutPlace, Jam, [Next]_vars
  PROVE  Jam'
  <1> USE FrameAssumption DEF TypeOK, Both, buffers, codec, Other, Fresh, Places,
      OutPlace, Jam
  <1>1. CASE JPEG_Decode_DMA
    BY <1>1 DEF JPEG_Decode_DMA
  <1>2. CASE InputTest
    BY <1>2 DEF InputTest
  <1>3. CASE InputRead
    BY <1>3 DEF InputRead
  <1>4. CASE InputFilled
    BY <1>4 DEF InputFilled
  <1>5. CASE ResumeInReads
    BY <1>5 DEF ResumeInReads, ResumeReads
  <1>6. CASE ResumeInWrites
    BY <1>6 DEF ResumeInWrites
  <1>7. CASE OutputTest
    BY <1>7 DEF OutputTest
  <1>8. CASE ResumeOutReads
    BY <1>8 DEF ResumeOutReads, ResumeReads
  <1>9. CASE ResumeOutWrites
    BY <1>9 DEF ResumeOutWrites
  <1>10. CASE OutputConvert
    BY <1>10 DEF OutputConvert
  <1>11. CASE OutputConverted
    BY <1>11 DEF OutputConverted
  <1>12. CASE GoOn
    BY <1>12 DEF GoOn
  <1>13. CASE TimeOut
    BY <1>13 DEF TimeOut
  <1>14. CASE InDone
    BY <1>14 DEF InDone
  <1>15. CASE OutDone
    BY <1>15 DEF OutDone, DataReady
  <1>16. CASE EndOfConversion
    BY <1>16 DEF EndOfConversion, DataReady
  <1>17. CASE ResumeInStarts
    BY <1>17 DEF ResumeInStarts
  <1>18. CASE ResumeOutStarts
    BY <1>18 DEF ResumeOutStarts
  <1>19. CASE OnError_Handler
    BY <1>19 DEF OnError_Handler
  <1>20. CASE UNCHANGED vars
    BY <1>20 DEF vars
  <1> QED
    BY <1>1, <1>2, <1>3, <1>4, <1>5, <1>6, <1>7, <1>8, <1>9, <1>10, <1>11,
       <1>12, <1>13, <1>14, <1>15, <1>16, <1>17, <1>18, <1>19, <1>20
       DEF Next, Handlers, Interrupt

\* The order of the chunks, as long as no size was overwritten.
LEMMA OrderStep ==
  ASSUME TypeOK, OutPlace, ~torn => OutQueue, [Next]_vars
  PROVE  ~torn' => OutQueue'
  <1> USE FrameAssumption DEF TypeOK, Both, buffers, codec, Other, Fresh, Places,
      OutPlace, OutQueue, NextOut, OutHeld
  <1>1. CASE JPEG_Decode_DMA
    BY <1>1 DEF JPEG_Decode_DMA
  <1>2. CASE InputTest
    BY <1>2 DEF InputTest
  <1>3. CASE InputRead
    BY <1>3 DEF InputRead
  <1>4. CASE InputFilled
    BY <1>4 DEF InputFilled
  <1>5. CASE ResumeInReads
    BY <1>5 DEF ResumeInReads, ResumeReads
  <1>6. CASE ResumeInWrites
    BY <1>6 DEF ResumeInWrites
  <1>7. CASE OutputTest
    BY <1>7 DEF OutputTest
  <1>8. CASE ResumeOutReads
    BY <1>8 DEF ResumeOutReads, ResumeReads
  <1>9. CASE ResumeOutWrites
    BY <1>9 DEF ResumeOutWrites
  <1>10. CASE OutputConvert
    <2>1. /\ block \in Nat /\ emitted \in Nat /\ outRead \in Both /\ outWrite \in Both
          /\ out[0].full \in BOOLEAN /\ out[0].size \in BOOLEAN /\ out[0].chunk \in Nat
          /\ out[1].full \in BOOLEAN /\ out[1].size \in BOOLEAN /\ out[1].chunk \in Nat
      OBVIOUS
    <2>2. /\ pc = "convert" /\ pc' = "converted" /\ out[outRead].full
          /\ block' = (IF out[outRead].size THEN block + 1 ELSE block)
          /\ outRead' = outRead /\ outWrite' = outWrite /\ emitted' = emitted /\ torn' = torn
      BY <1>10 DEF OutputConvert
    <2>3. CASE outRead = 0
      <3>1. /\ out'[0].full = FALSE /\ out'[1].full = out[1].full
            /\ out'[1].size = out[1].size /\ out'[1].chunk = out[1].chunk
        BY <1>10, <2>3 DEF OutputConvert
      <3> HIDE DEF TypeOK
      <3> SUFFICES ASSUME ~torn PROVE OutQueue'
        BY <2>2
      <3>2. (out[NextOut].full => out[NextOut].size /\ out[NextOut].chunk = block + 1)'
        BY <2>3, <2>1, <2>2, <3>1
      <3>3. (out[Other(NextOut)].full =>
                out[NextOut].full /\ out[Other(NextOut)].size /\ out[Other(NextOut)].chunk = block + 2)'
        BY <2>3, <2>1, <2>2, <3>1
      <3>4. (outWrite = IF out[0].full # out[1].full THEN Other(NextOut) ELSE NextOut)'
        BY <2>3, <2>1, <2>2, <3>1
      <3>5. (emitted = block + OutHeld)'
        BY <2>3, <2>1, <2>2, <3>1
      <3> QED
        BY <3>2, <3>3, <3>4, <3>5
    <2>4. CASE outRead = 1
      <3>1. /\ out'[1].full = FALSE /\ out'[0].full = out[0].full
            /\ out'[0].size = out[0].size /\ out'[0].chunk = out[0].chunk
        BY <1>10, <2>4 DEF OutputConvert
      <3> HIDE DEF TypeOK
      <3> SUFFICES ASSUME ~torn PROVE OutQueue'
        BY <2>2
      <3>2. (out[NextOut].full => out[NextOut].size /\ out[NextOut].chunk = block + 1)'
        BY <2>4, <2>1, <2>2, <3>1
      <3>3. (out[Other(NextOut)].full =>
                out[NextOut].full /\ out[Other(NextOut)].size /\ out[Other(NextOut)].chunk = block + 2)'
        BY <2>4, <2>1, <2>2, <3>1
      <3>4. (outWrite = IF out[0].full # out[1].full THEN Other(NextOut) ELSE NextOut)'
        BY <2>4, <2>1, <2>2, <3>1
      <3>5. (emitted = block + OutHeld)'
        BY <2>4, <2>1, <2>2, <3>1
      <3> QED
        BY <3>2, <3>3, <3>4, <3>5
    <2> QED
      BY <2>3, <2>4
  <1>11. CASE OutputConverted
    BY <1>11 DEF OutputConverted
  <1>12. CASE GoOn
    BY <1>12 DEF GoOn
  <1>13. CASE TimeOut
    BY <1>13 DEF TimeOut
  <1>14. CASE InDone
    BY <1>14 DEF InDone
  <1>15. CASE OutDone
    <2>1. /\ block \in Nat /\ emitted \in Nat /\ outRead \in Both /\ outWrite \in Both
          /\ out[0].full \in BOOLEAN /\ out[0].size \in BOOLEAN /\ out[0].chunk \in Nat
          /\ out[1].full \in BOOLEAN /\ out[1].size \in BOOLEAN /\ out[1].chunk \in Nat
      OBVIOUS
    <2>2. /\ outDma /\ emitted + 1 < Chunks /\ emitted' = emitted + 1
          /\ outWrite' = Other(outWrite) /\ outRead' = outRead /\ pc' = pc
          /\ block' = block /\ busy' = busy /\ torn' = torn
          /\ IF out[Other(outWrite)].full
             THEN outDma' = FALSE /\ outPaused' = TRUE
             ELSE outDma' = outDma /\ outPaused' = outPaused
      BY <1>15 DEF OutDone, DataReady
    <2>3. CASE outWrite = 0
      <3>1. /\ out'[0].full = TRUE /\ out'[0].size = TRUE /\ out'[0].chunk = emitted + 1
            /\ out'[1].full = out[1].full /\ out'[1].size = out[1].size
            /\ out'[1].chunk = out[1].chunk
        BY <1>15, <2>3 DEF OutDone, DataReady
      <3> HIDE DEF TypeOK
      <3> SUFFICES ASSUME ~torn PROVE OutQueue'
        BY <2>2
      <3>2. (out[NextOut].full => out[NextOut].size /\ out[NextOut].chunk = block + 1)'
        BY <2>3, <2>1, <2>2, <3>1
      <3>3. (out[Other(NextOut)].full =>
                out[NextOut].full /\ out[Other(NextOut)].size /\ out[Other(NextOut)].chunk = block + 2)'
        BY <2>3, <2>1, <2>2, <3>1
      <3>4. (outWrite = IF out[0].full # out[1].full THEN Other(NextOut) ELSE NextOut)'
        BY <2>3, <2>1, <2>2, <3>1
      <3>5. (emitted = block + OutHeld)'
        BY <2>3, <2>1, <2>2, <3>1
      <3> QED
        BY <3>2, <3>3, <3>4, <3>5
    <2>4. CASE outWrite = 1
      <3>1. /\ out'[1].full = TRUE /\ out'[1].size = TRUE /\ out'[1].chunk = emitted + 1
            /\ out'[0].full = out[0].full /\ out'[0].size = out[0].size
            /\ out'[0].chunk = out[0].chunk
        BY <1>15, <2>4 DEF OutDone, DataReady
      <3> HIDE DEF TypeOK
      <3> SUFFICES ASSUME ~torn PROVE OutQueue'
        BY <2>2
      <3>2. (out[NextOut].full => out[NextOut].size /\ out[NextOut].chunk = block + 1)'
        BY <2>4, <2>1, <2>2, <3>1
      <3>3. (out[Other(NextOut)].full =>
                out[NextOut].full /\ out[Other(NextOut)].size /\ out[Other(NextOut)].chunk = block + 2)'
        BY <2>4, <2>1, <2>2, <3>1
      <3>4. (outWrite = IF out[0].full # out[1].full THEN Other(NextOut) ELSE NextOut)'
        BY <2>4, <2>1, <2>2, <3>1
      <3>5. (emitted = block + OutHeld)'
        BY <2>4, <2>1, <2>2, <3>1
      <3> QED
        BY <3>2, <3>3, <3>4, <3>5
    <2> QED
      BY <2>3, <2>4
  <1>16. CASE EndOfConversion
    <2>1. /\ block \in Nat /\ emitted \in Nat /\ outRead \in Both /\ outWrite \in Both
          /\ out[0].full \in BOOLEAN /\ out[0].size \in BOOLEAN /\ out[0].chunk \in Nat
          /\ out[1].full \in BOOLEAN /\ out[1].size \in BOOLEAN /\ out[1].chunk \in Nat
      OBVIOUS
    <2>2. /\ outDma /\ emitted + 1 = Chunks /\ emitted' = emitted + 1
          /\ outWrite' = Other(outWrite) /\ outRead' = outRead /\ pc' = pc
          /\ block' = block /\ busy' = FALSE /\ torn' = torn /\ outDma' = FALSE
      BY <1>16 DEF EndOfConversion, DataReady
    <2>3. CASE outWrite = 0
      <3>1. /\ out'[0].full = TRUE /\ out'[0].size = TRUE /\ out'[0].chunk = emitted + 1
            /\ out'[1].full = out[1].full /\ out'[1].size = out[1].size
            /\ out'[1].chunk = out[1].chunk
        BY <1>16, <2>3 DEF EndOfConversion, DataReady
      <3> HIDE DEF TypeOK
      <3> SUFFICES ASSUME ~torn PROVE OutQueue'
        BY <2>2
      <3>2. (out[NextOut].full => out[NextOut].size /\ out[NextOut].chunk = block + 1)'
        BY <2>3, <2>1, <2>2, <3>1
      <3>3. (out[Other(NextOut)].full =>
                out[NextOut].full /\ out[Other(NextOut)].size /\ out[Other(NextOut)].chunk = block + 2)'
        BY <2>3, <2>1, <2>2, <3>1
      <3>4. (outWrite = IF out[0].full # out[1].full THEN Other(NextOut) ELSE NextOut)'
        BY <2>3, <2>1, <2>2, <3>1
      <3>5. (emitted = block + OutHeld)'
        BY <2>3, <2>1, <2>2, <3>1
      <3> QED
        BY <3>2, <3>3, <3>4, <3>5
    <2>4. CASE outWrite = 1
      <3>1. /\ out'[1].full = TRUE /\ out'[1].size = TRUE /\ out'[1].chunk = emitted + 1
            /\ out'[0].full = out[0].full /\ out'[0].size = out[0].size
            /\ out'[0].chunk = out[0].chunk
        BY <1>16, <2>4 DEF EndOfConversion, DataReady
      <3> HIDE DEF TypeOK
      <3> SUFFICES ASSUME ~torn PROVE OutQueue'
        BY <2>2
      <3>2. (out[NextOut].full => out[NextOut].size /\ out[NextOut].chunk = block + 1)'
        BY <2>4, <2>1, <2>2, <3>1
      <3>3. (out[Other(NextOut)].full =>
                out[NextOut].full /\ out[Other(NextOut)].size /\ out[Other(NextOut)].chunk = block + 2)'
        BY <2>4, <2>1, <2>2, <3>1
      <3>4. (outWrite = IF out[0].full # out[1].full THEN Other(NextOut) ELSE NextOut)'
        BY <2>4, <2>1, <2>2, <3>1
      <3>5. (emitted = block + OutHeld)'
        BY <2>4, <2>1, <2>2, <3>1
      <3> QED
        BY <3>2, <3>3, <3>4, <3>5
    <2> QED
      BY <2>3, <2>4
  <1>17. CASE ResumeInStarts
    BY <1>17 DEF ResumeInStarts
  <1>18. CASE ResumeOutStarts
    BY <1>18 DEF ResumeOutStarts
  <1>19. CASE OnError_Handler
    BY <1>19 DEF OnError_Handler
  <1>20. CASE UNCHANGED vars
    BY <1>20 DEF vars
  <1> QED
    BY <1>1, <1>2, <1>3, <1>4, <1>5, <1>6, <1>7, <1>8, <1>9, <1>10, <1>11,
       <1>12, <1>13, <1>14, <1>15, <1>16, <1>17, <1>18, <1>19, <1>20
       DEF Next, Handlers, Interrupt

\* No stream is left running, as long as no context was overwritten.
LEMMA RestStep ==
  ASSUME TypeOK, InPlace, OutPlace, Contexts, ~torn => AtRest, [Next]_vars
  PROVE  ~torn' => AtRest'
  <1> USE FrameAssumption DEF TypeOK, Both, buffers, codec, Other, Fresh, Places,
      InPlace, OutPlace, Contexts, AtRest
  <1>1. CASE JPEG_Decode_DMA
    BY <1>1 DEF JPEG_Decode_DMA
  <1>2. CASE InputTest
    BY <1>2 DEF InputTest
  <1>3. CASE InputRead
    BY <1>3 DEF InputRead
  <1>4. CASE InputFilled
    BY <1>4 DEF InputFilled
  <1>5. CASE ResumeInReads
    BY <1>5 DEF ResumeInReads, ResumeReads
  <1>6. CASE ResumeInWrites
    BY <1>6 DEF ResumeInWrites
  <1>7. CASE OutputTest
    BY <1>7 DEF OutputTest
  <1>8. CASE ResumeOutReads
    BY <1>8 DEF ResumeOutReads, ResumeReads
  <1>9. CASE ResumeOutWrites
    BY <1>9 DEF ResumeOutWrites
  <1>10. CASE OutputConvert
    BY <1>10 DEF OutputConvert
  <1>11. CASE OutputConverted
    BY <1>11 DEF OutputConverted
  <1>12. CASE GoOn
    BY <1>12 DEF GoOn
  <1>13. CASE TimeOut
    BY <1>13 DEF TimeOut
  <1>14. CASE InDone
    BY <1>14 DEF InDone
  <1>15. CASE OutDone
    BY <1>15 DEF OutDone, DataReady
  <1>16. CASE EndOfConversion
    BY <1>16 DEF EndOfConversion, DataReady
  <1>17. CASE ResumeInStarts
    BY <1>17 DEF ResumeInStarts
  <1>18. CASE ResumeOutStarts
    BY <1>18 DEF ResumeOutStarts
  <1>19. CASE OnError_Handler
    BY <1>19 DEF OnError_Handler
  <1>20. CASE UNCHANGED vars
    BY <1>20 DEF vars
  <1> QED
    BY <1>1, <1>2, <1>3, <1>4, <1>5, <1>6, <1>7, <1>8, <1>9, <1>10, <1>11,
       <1>12, <1>13, <1>14, <1>15, <1>16, <1>17, <1>18, <1>19, <1>20
       DEF Next, Handlers, Interrupt

\* No pause is lost, as long as no context was overwritten.
LEMMA PauseStep ==
  ASSUME TypeOK, InQueue, InPlace, OutPlace, Contexts, ~torn => AtRest /\ Noticed, [Next]_vars
  PROVE  ~torn' => Noticed'
  <1> USE FrameAssumption DEF TypeOK, Both, buffers, codec, Other, Fresh, Places,
      InQueue, InPlace, OutPlace, Contexts, AtRest, Noticed
  <1>1. CASE JPEG_Decode_DMA
    BY <1>1 DEF JPEG_Decode_DMA
  <1>2. CASE InputTest
    BY <1>2 DEF InputTest
  <1>3. CASE InputRead
    BY <1>3 DEF InputRead
  <1>4. CASE InputFilled
    BY <1>4 DEF InputFilled
  <1>5. CASE ResumeInReads
    BY <1>5 DEF ResumeInReads, ResumeReads
  <1>6. CASE ResumeInWrites
    BY <1>6 DEF ResumeInWrites
  <1>7. CASE OutputTest
    BY <1>7 DEF OutputTest
  <1>8. CASE ResumeOutReads
    BY <1>8 DEF ResumeOutReads, ResumeReads
  <1>9. CASE ResumeOutWrites
    BY <1>9 DEF ResumeOutWrites
  <1>10. CASE OutputConvert
    BY <1>10 DEF OutputConvert
  <1>11. CASE OutputConverted
    BY <1>11 DEF OutputConverted
  <1>12. CASE GoOn
    BY <1>12 DEF GoOn
  <1>13. CASE TimeOut
    BY <1>13 DEF TimeOut
  <1>14. CASE InDone
    BY <1>14 DEF InDone
  <1>15. CASE OutDone
    BY <1>15 DEF OutDone, DataReady
  <1>16. CASE EndOfConversion
    BY <1>16 DEF EndOfConversion, DataReady
  <1>17. CASE ResumeInStarts
    BY <1>17 DEF ResumeInStarts
  <1>18. CASE ResumeOutStarts
    BY <1>18 DEF ResumeOutStarts
  <1>19. CASE OnError_Handler
    BY <1>19 DEF OnError_Handler
  <1>20. CASE UNCHANGED vars
    BY <1>20 DEF vars
  <1> QED
    BY <1>1, <1>2, <1>3, <1>4, <1>5, <1>6, <1>7, <1>8, <1>9, <1>10, <1>11,
       <1>12, <1>13, <1>14, <1>15, <1>16, <1>17, <1>18, <1>19, <1>20
       DEF Next, Handlers, Interrupt

-----------------------------------------------------------------------------
LEMMA Invariance == Spec => []Inv
<1>1. Init => Inv
  <2> USE FrameAssumption DEF Init, Both, Other, Fresh, Places
  <2>1. Init => TypeOK
    <3>1. Init => in \in [Both -> [full : BOOLEAN, piece : Nat]]
      OBVIOUS
    <3>2. Init => out \in [Both -> [full : BOOLEAN, size : BOOLEAN, chunk : Nat]]
      OBVIOUS
    <3>3. SUFFICES ASSUME Init PROVE TypeOK
      OBVIOUS
    <3>4. context \in SUBSET {"in", "out"} /\ copy \in SUBSET {"in", "out"}
      BY <3>3
    <3>5. /\ pc \in Places /\ block \in Nat /\ fed \in Nat /\ emitted \in Nat
          /\ inRead \in Both /\ inWrite \in Both /\ inPaused \in BOOLEAN
          /\ outRead \in Both /\ outWrite \in Both /\ outPaused \in BOOLEAN
          /\ busy \in BOOLEAN /\ jammed \in BOOLEAN /\ inDma \in {"off", "on", "old"}
          /\ outDma \in BOOLEAN /\ torn \in BOOLEAN
      BY <3>3
    <3> QED
      BY <3>1, <3>2, <3>3, <3>4, <3>5 DEF TypeOK
  <2>2. Init => InQueue /\ InPlace
    BY DEF InQueue, InPlace, InHeld, NextIn
  <2>3. Init => OutPlace /\ Contexts /\ Jam /\ AtRest /\ Noticed
    BY DEF OutPlace, OutHeld, Contexts, Jam, AtRest, Noticed
  <2>4. Init => OutQueue
    BY DEF OutQueue, OutHeld, NextOut
  <2> QED
    BY <2>1, <2>2, <2>3, <2>4 DEF Inv
<1>2. Inv /\ [Next]_vars => Inv'
  BY TypeStep, InStep, OutStep, ContextStep, JamStep, OrderStep, RestStep, PauseStep DEF Inv
<1> QED
  BY <1>1, <1>2, PTL DEF Spec

\* The tables, the indices, the flags and the codec keep to their values.
THEOREM TypeCorrect == Spec => []TypeOK
<1>1. Inv => TypeOK
  BY DEF Inv
<1> QED
  BY <1>1, Invariance, PTL

\* However many interrupts come between two steps of JPEG_OutputHandler: it converts
\* every chunk once, in order, and never while it is written.
THEOREM ChunksConverted == Spec => []ChunksInOrder
<1>1. Inv => ChunksInOrder
  BY DEF Inv, TypeOK, OutQueue, OutPlace, NextOut, ChunksInOrder, Both
<1> QED
  BY <1>1, Invariance, PTL

\* The same for JPEG_InputHandler and what the codec is sent.
THEOREM PiecesSent == Spec => []PiecesInOrder
<1>1. Inv => PiecesInOrder
  BY DEF Inv, TypeOK, InQueue, InPlace, AtRest, PiecesInOrder, Both
<1> QED
  BY <1>1, Invariance, PTL

\* Each frame finds the codec and its streams at rest, however the last one ended, unless
\* an interrupt came in the middle of HAL_JPEG_Resume; and the flags of the pauses clear,
\* unless HAL_JPEG_Abort has given the codec up, which then refuses the frame.
THEOREM NextFrameAccepted == Spec => []CodecAtRest
<1>1. Inv => CodecAtRest
  BY DEF Inv, TypeOK, OutPlace, Contexts, AtRest, CodecAtRest
<1> QED
  BY <1>1, Invariance, PTL

\* However the interrupts fall between the steps of the two handlers and of
\* HAL_JPEG_Resume: a stream that was stopped in the middle of a frame is resumed.
THEOREM PausesAreNoticed == Spec => []NoPauseMissed
<1>1. Inv => NoPauseMissed
  <2> SUFFICES ASSUME Inv, busy, ~torn PROVE NoPauseMissed
    BY DEF NoPauseMissed
  <2>1. TypeOK /\ InQueue /\ OutQueue /\ Noticed
    BY DEF Inv
  <2>2. ASSUME inDma = "off", fed < Pieces, pc \notin {"resumeIn", "restartIn", "startIn"}
        PROVE  IF pc = "filled" /\ inWrite = inRead
               THEN in[inRead].full
               ELSE ~in[inRead].full /\ NextIn = inRead
    BY <2>1, <2>2 DEF TypeOK, Both, InQueue, NextIn, Noticed, Other
  <2>3. out[NextOut].full \/ outWrite = NextOut
    BY <2>1 DEF TypeOK, Both, OutQueue, NextOut, Other
  <2> QED
    BY <2>1, <2>2, <2>3 DEF Noticed, NoPauseMissed
<1> QED
  BY <1>1, Invariance, PTL

=============================================================================
