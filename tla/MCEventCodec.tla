---------------------------- MODULE MCEventCodec ----------------------------
(* The bounds of the run of EventCodec, scaled down from strings of 128 bytes. *)
EXTENDS EventCodec

\* Too short for user space, the same, with padding after either variant, and
\* so long that a record without a location is as long as one with a location.
MCProgramLengths == {1, 2, 4, 5, 12}

\* A file name that fits, and one that is cut inside a character.
MCFiles == {<<Letter>>, <<LeadByte, TrailByte, LeadByte, TrailByte>>}

\* A number of one byte, and one of all bytes; a byte of a number need not be
\* valid UTF-8.
MCCpus == {0, 9}
MCLines == {LeadByte, 8 * 8 * 8 * 7 + 9}
=============================================================================
