------------------------------- MODULE MqttLoop -------------------------------
(***************************************************************************)
(* "jbdtool -m ... -i n": main() reads the pack and publishes it in a loop *)
(* (main.c, "do { ... } while(interval)", with mqtt.c).  The record info   *)
(* and the JSON document live through all rounds; each round overwrites    *)
(* what it has read.  A read of the pack is three exchanges, and each one  *)
(* may fail.                                                               *)
(*                                                                         *)
(* The broker (external) has a message when the handshake of qos 2 gets    *)
(* through before jbdtool disconnects; the session is clean and nothing is *)
(* kept for the next connection.                                           *)
(***************************************************************************)
EXTENDS Integers

CONSTANT MaxRound   \* rounds told apart; later ones count as the last (bound)

ASSUME RoundAssumption == MaxRound \in Nat \ {0}

Part  == {"hwinfo", "cells", "model"}
Unset == -1        \* memory nobody set, or what was there before
None  == [p \in Part |-> 0]
Age   == Unset..MaxRound

VARIABLES at,       \* pc: test, open; the exchanges hwinfo, cells, model; display,
                    \* close, connect, publish, wait, disconnect, sleep, exit
          interval, \* -i given
          round,
          read,     \* r of jbd_get_info: the read of this round went well
          info,     \* info: the round each part is of, 0 none
          doc,      \* root_object, likewise
          conn,     \* the broker is connected
          flight,   \* messages on their way to the broker
          got,      \* the last message the broker had
          broken    \* ghost: open() or mqtt_connect() failed

loopVars == <<at, interval, round, read, info, doc, conn, flight, got, broken>>

LoopInit == /\ at = "test" /\ interval \in BOOLEAN
            /\ round = 1 /\ read = FALSE
            /\ info = None /\ doc = None
            /\ conn = FALSE /\ broken = FALSE
            /\ flight = {} /\ got = None

\* "Test the connection": mqtt_connect(), mqtt_disconnect().
Test == /\ at = "test"
        /\ \/ at' = "open" /\ UNCHANGED broken
           \/ at' = "exit" /\ broken' = TRUE
        /\ UNCHANGED <<interval, round, read, info, doc, conn, flight, got>>

OpenPort == /\ at = "open"
            /\ at' = "hwinfo"
            /\ UNCHANGED <<interval, round, read, info, doc, conn, flight, got, broken>>

\* if (pack.open(pack.handle)) return 1;
OpenPortFails == /\ at = "open"
                 /\ at' = "exit" /\ broken' = TRUE
                 /\ UNCHANGED <<interval, round, read, info, doc, conn, flight, got>>

After(p) == CASE p = "hwinfo" -> "cells" [] p = "cells" -> "model" [] p = "model" -> "display"

\* An exchange of jbd_std_get_info() and the assignments after it.  A value's
\* age is the round it was read in; an empty answer is not an error, and leaves
\* data[] as it was.
Exchange == /\ at \in Part
            /\ \E age \in {round, Unset} : info' = [info EXCEPT ![at] = age]
            /\ at' = After(at)
            /\ read' = (at = "model")
            /\ UNCHANGED <<interval, round, doc, conn, flight, got, broken>>

\* Mutants of ExchangeFails: what there is is displayed all the same; the
\* failure ends the program.
ExchangeFails_Displays == /\ at \in Part
                          /\ at' = "display" /\ read' = FALSE
                          /\ UNCHANGED <<interval, round, info, doc, conn, flight, got, broken>>

ExchangeFails_Exits == /\ at \in Part
                       /\ at' = "exit" /\ read' = FALSE
                       /\ UNCHANGED <<interval, round, info, doc, conn, flight, got, broken>>

\* jbd_rw() < 0: return 1, and main() displays nothing.
ExchangeFails == /\ at \in Part
                 /\ at' = "close" /\ read' = FALSE
                 /\ UNCHANGED <<interval, round, info, doc, conn, flight, got, broken>>

\* display_info() sets every member of the document.
Display == /\ at = "display"
           /\ doc' = info
           /\ at' = "close"
           /\ UNCHANGED <<interval, round, read, info, conn, flight, got, broken>>

Close == /\ at = "close"
         /\ at' = "connect"
         /\ UNCHANGED <<interval, round, read, info, doc, conn, flight, got, broken>>

Connect == /\ at = "connect"
           /\ conn' = TRUE
           /\ at' = "publish"
           /\ UNCHANGED <<interval, round, read, info, doc, flight, got, broken>>

\* if (mqtt_connect(conf->mqtt,10)) return 1;
ConnectFails == /\ at = "connect"
                /\ at' = "exit" /\ broken' = TRUE
                /\ UNCHANGED <<interval, round, read, info, doc, conn, flight, got>>

\* mqtt_pub(): MQTTClient_publishMessage(), nothing when the connection is lost.
Publish == /\ at = "publish"
           /\ flight' = IF conn THEN flight \cup {doc} ELSE flight
           /\ at' = "wait"
           /\ UNCHANGED <<interval, round, read, info, doc, conn, got, broken>>

\* MQTTClient_waitForCompletion() is done or times out: all one to main().
WaitOver == /\ at = "wait"
            /\ at' = "disconnect"
            /\ UNCHANGED <<interval, round, read, info, doc, conn, flight, got, broken>>

\* mqtt_disconnect(); cleansession = 1.
Disconnect == /\ at = "disconnect"
              /\ conn' = FALSE /\ flight' = {}
              /\ at' = "sleep"
              /\ UNCHANGED <<interval, round, read, info, doc, got, broken>>

\* sleep(interval); } while(interval);
Sleep == /\ at = "sleep"
         /\ IF interval THEN at' = "open" /\ round' = IF round < MaxRound THEN round + 1 ELSE round
                        ELSE at' = "exit" /\ round' = round
         /\ UNCHANGED <<interval, read, info, doc, conn, flight, got, broken>>

\* The broker and the network to it.
Deliver == /\ conn
           /\ \E m \in flight : got' = m /\ flight' = flight \ {m}
           /\ UNCHANGED <<at, interval, round, read, info, doc, conn, broken>>

ConnectionLost == /\ conn
                  /\ conn' = FALSE /\ flight' = {}
                  /\ UNCHANGED <<at, interval, round, read, info, doc, got, broken>>

Main == \/ Test \/ OpenPort \/ OpenPortFails \/ Exchange \/ ExchangeFails \/ Display \/ Close
        \/ Connect \/ ConnectFails \/ Publish \/ WaitOver \/ Disconnect \/ Sleep

LoopNext == Main \/ Deliver \/ ConnectionLost

LoopSpec == LoopInit /\ [][LoopNext]_loopVars

\* Every call main() makes returns: jbd_rw() counts its retries, and the
\* broker library has timeouts.
LoopFairSpec == LoopSpec /\ WF_loopVars(Main)

-----------------------------------------------------------------------------
\* What the broker gets was read in one go: never the first registers of one
\* round with the rest of another, though reads fail in the middle and info
\* keeps what they left.  It is this round's when this round's read went well,
\* and otherwise an earlier one, never older than what the broker had; empty
\* only as long as no read has gone well.  (Parts of empty answers aside.)
Whole(m) == Unset \in {m[p] : p \in Part} \/ \A p, q \in Part : m[p] = m[q]

DeliveredWhole ==
    [][got' # got =>
          /\ Whole(got')
          /\ read => \A p \in Part : got'[p] \in {round, Unset}
          /\ \A p \in Part : Unset \in {got[p], got'[p]} \/ got'[p] >= got[p]]_loopVars

\* With an interval the program publishes again and again, however often reads
\* and publications fail: only the transport's open() and the broker's connect end it.
LoopGoesOn == []<>(at = "publish") \/ <>(~interval \/ broken)
=============================================================================
