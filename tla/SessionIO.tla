----------------------------- MODULE SessionIO -----------------------------
(***************************************************************************)
(* A session's reader and writer thread on their shared log                *)
(* (fix/session.rs): the reader logs every frame before it handles it, and *)
(* the bytes of a frame it must refuse; the writer logs before it sends.   *)
(***************************************************************************)
EXTENDS Framing, SessionLog

CONSTANT MaxOut   \* bound: frames our writer sends

ASSUME SessionIOAssumption == MaxOut \in Nat

VARIABLES
    stamp,   \* the date each thread took and has not logged under, 0 for none
    out,     \* frames our writer logged
    taken    \* records our reader logged

vars == <<framing, logging, stamp, out, taken>>

Init ==
    /\ FramingInit /\ LogInit
    /\ stamp = [reader |-> 0, writer |-> 0]
    /\ out = 0 /\ taken = 0

\* The peer and the socket.
Peer ==
    /\ (\E f \in DOMAIN Frames : Send(f)) \/ HangUp
    /\ UNCHANGED <<logging, stamp, out, taken>>

\* A frame, or what there is of one, goes to the log.
Loggable == {"message", "invalid", "broken"}

Stamped == stamp' = IF reader' \in Loggable THEN [stamp EXCEPT !.reader = today]
                                            ELSE stamp

Reading ==
    /\ ReadBytes \/ ReadEnd
    /\ Stamped
    /\ UNCHANGED <<logging, out, taken>>

Polling ==
    /\ Call \/ TimeOut
    /\ UNCHANGED <<logging, stamp, out, taken>>

\* session_log.incoming or incoming_bytes; after a message the loop goes on.
ReaderLogs ==
    /\ stamp.reader # 0
    /\ LET r == Record("in", taken + 1, stamp.reader)
       IN  WriteRecord(r) \/ OpenFails(r)
    /\ stamp' = [stamp EXCEPT !.reader = 0]
    /\ taken' = taken + 1
    /\ reader' = IF reader = "message" THEN "loop" ELSE reader
    /\ UNCHANGED <<sent, net, eof, torn, pending, total, delivered, out>>

\* writer_loop: log.outgoing takes the time,
WriterStamps ==
    /\ stamp.writer = 0
    /\ out < MaxOut
    /\ stamp' = [stamp EXCEPT !.writer = today]
    /\ UNCHANGED <<framing, logging, out, taken>>

\* then the mutex; the frame is sent after it.
WriterLogs ==
    /\ stamp.writer # 0
    /\ LET r == Record("out", out + 1, stamp.writer)
       IN  WriteRecord(r) \/ OpenFails(r)
    /\ stamp' = [stamp EXCEPT !.writer = 0]
    /\ out' = out + 1
    /\ UNCHANGED <<framing, taken>>

Night == Midnight /\ UNCHANGED <<framing, stamp, out, taken>>

Next ==
    \/ Peer \/ Reading \/ Polling \/ ReaderLogs
    \/ WriterStamps \/ WriterLogs \/ Night

\* The reader runs, and bytes on their way arrive before the socket has timed
\* out for ever.
Spec ==
    /\ Init
    /\ [][Next]_vars
    /\ WF_vars(Polling) /\ WF_vars(ReaderLogs) /\ SF_vars(Reading)

-----------------------------------------------------------------------------
(* Properties *)

\* Nothing the reader takes off the stream escapes the log: every record is
\* filed, and when the file system did not fail there is one for each message
\* and one for the bytes of the frame that ended the connection.
Logged ==
    /\ Filed
    /\ faults = 0 /\ stamp.reader = 0 =>
        Cardinality({r \in written : r.from = "in"})
            = Len(delivered) + (IF reader \in {"invalid", "broken"} THEN 1 ELSE 0)
=============================================================================
