--------------------------- MODULE FirmwareServer ---------------------------
(***************************************************************************)
(* The firmware server (src/src/firmware-server.c): its answer to a        *)
(* request for a piece of memory.  The hash at the end of an answer is     *)
(* left out.                                                               *)
(***************************************************************************)
EXTENDS Integers, Sequences

PayloadSize == 32
Fields == 16      \* bytes of a response besides its payload

NoResponse == [type |-> "none"]

\* memory is a function from addresses to bytes.
firmware_request(req, memory) ==
    IF req.type # "murmur_request" \/ req.offset % 4 # 0
    THEN NoResponse
    ELSE LET bytes_to_copy == IF req.length > PayloadSize THEN PayloadSize ELSE req.length
         IN [type |-> "murmur_response", offset |-> req.offset,
             payload_size |-> bytes_to_copy,
             payload |-> [i \in 1 .. PayloadSize |->
                             IF i <= bytes_to_copy THEN memory[req.offset + i - 1] ELSE 0]]
-----------------------------------------------------------------------------
\* What a reader gets that asks for all that is left and goes on where the
\* answer ends.
ReadOut(offset, length, memory) ==
    LET Answer(done) == firmware_request([type |-> "murmur_request", offset |-> offset + done,
                                          length |-> length - done], memory)
        from[done \in 0 .. length] ==
            IF done = length \/ Answer(done) = NoResponse THEN << >>
            ELSE SubSeq(Answer(done).payload, 1, Answer(done).payload_size)
                 \o from[done + Answer(done).payload_size]
    IN from[0]
=============================================================================
