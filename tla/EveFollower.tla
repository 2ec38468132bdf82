----------------------------- MODULE EveFollower -----------------------------
(* follow_suricata_eve.py beside the console: it tails the file Suricata writes  *)
(* and posts each flow to the sensor route, one at a time.  The file grows by    *)
(* half lines, is truncated or replaced under the follower, and is looked at and *)
(* read in two steps; the follower dies of any post that is not answered with    *)
(* 200 and, started again, goes on from the end of the file.                     *)
(*                                                                               *)
(* Half lines are numbered as they are written: line n is the halves 2n - 1 and  *)
(* 2n, the second with the newline.  The signature an alert line lends to later  *)
(* flows is display text and left out.                                           *)
EXTENDS SocConsole, SequencesExt

CONSTANT Stream      \* what Suricata writes: the shape of each line; None is no flow of the range

ASSUME StreamAssumption == Stream \in Seq(Shapes \cup {None})

VARIABLE eve

followerVars == <<consoleVars, eve>>

(* What follow_eve starts with. *)
Fresh == [pc |-> "look", positioned |-> FALSE, offset |-> 0, partial |-> <<>>, todo |-> {}, thread |-> None]

(* Beside it the file, and three things nobody stores: the lines begun since the *)
(* file is followed, whether the offset is one of an older content, and whether  *)
(* it was used all the same.                                                     *)
FollowedInit ==
    /\ Init
    /\ eve = Over(Fresh, [file |-> FALSE, text |-> <<>>, written |-> 0, handled |-> <<>>,
                          due |-> {}, stale |-> FALSE, blind |-> FALSE])

SecondHalf(h) == h % 2 = 0

(* The lines in s that parse, each a first half and its second, alone. *)
LinesIn(s) ==
    {s[k] \div 2 : k \in {i \in 2 .. Len(s) :
        SecondHalf(s[i]) /\ s[i - 1] = s[i] - 1 /\ (i > 2 => SecondHalf(s[i - 2]))}}

(* Nothing is kept from one read to the next. *)
RestOfNone(s) == <<>>

(* What is left after the last newline. *)
RestOf(s) == SubSeq(s, SelectLastInSeq(s, SecondHalf) + 1, Len(s))

-----------------------------------------------------------------------------
(* Suricata, and whoever rotates its log. *)
SuricataWrites ==
    /\ Spend("write") /\ eve.written < 2 * Len(Stream)
    /\ LET h == eve.written + 1
       IN eve' = [eve EXCEPT !.file = TRUE, !.text = Append(@, h), !.written = h,
                             !.due = IF eve.positioned /\ ~SecondHalf(h)
                                     THEN @ \cup {(h + 1) \div 2} ELSE @]
    /\ UNCHANGED <<flows, lastId, campaigns, store, books, keys, cases, range, notes, req, post>>

Rotated ==
    /\ eve.file /\ Spend("rotate")
    /\ \E stays \in BOOLEAN :
          eve' = [eve EXCEPT !.file = stays, !.text = <<>>, !.due = {}, !.stale = eve.offset > 0]
    /\ UNCHANGED <<flows, lastId, campaigns, store, books, keys, cases, range, notes, req, post>>

-----------------------------------------------------------------------------
From(offset, positioned) ==
    [eve EXCEPT !.offset = offset, !.positioned = positioned, !.partial = <<>>,
                !.stale = FALSE, !.blind = FALSE]

(* One round of follow_eve up to its read: no file, a file seen for the first    *)
(* time, one that shrank, one that grew.                                         *)
EveLooked ==
    /\ eve.pc = "look"
    /\ LET size == Len(eve.text)
       IN \/ /\ ~eve.file
             /\ eve' = [From(0, FALSE) EXCEPT !.due = {}]
          \/ /\ eve.file /\ ~eve.positioned
             /\ eve' = From(size, TRUE)
          \/ /\ eve.file /\ eve.positioned /\ size < eve.offset
             /\ eve' = [From(0, TRUE) EXCEPT !.pc = IF size > 0 THEN "read" ELSE "look"]
          \/ /\ eve.file /\ eve.positioned /\ size >= eve.offset
             /\ eve' = [eve EXCEPT !.pc = IF size > eve.offset THEN "read" ELSE "look",
                                   !.blind = @ \/ eve.stale]
    /\ UNCHANGED consoleVars

Dies == [eve EXCEPT !.pc = "dead", !.todo = {}, !.thread = None]

(* seek, read to the end, tell: past the end of a file that shrank there is      *)
(* nothing, and the offset stays.                                                *)
EveRead ==
    /\ eve.pc = "read"
    /\ LET size == Len(eve.text)
           all == eve.partial \o SubSeq(eve.text, eve.offset + 1, size)
       IN eve' = IF ~eve.file THEN Dies
                 ELSE [eve EXCEPT !.offset = IF size > @ THEN size ELSE @,
                                  !.partial = RestOf(all), !.todo = LinesIn(all),
                                  !.pc = IF LinesIn(all) = {} THEN "look" ELSE "lines",
                                  !.blind = @ \/ (eve.stale /\ size > eve.offset)]
    /\ UNCHANGED consoleVars

CurrentLine == CHOOSE n \in eve.todo : \A k \in eve.todo : n <= k

LineDone ==
    [eve EXCEPT !.handled = Append(@, CurrentLine), !.todo = @ \ {CurrentLine}, !.thread = None,
                !.pc = IF eve.todo = {CurrentLine} THEN "look" ELSE "lines"]

(* handle_line: blank, bad_json, alert, ignored, noise, invalid_flow. *)
LinePassed ==
    /\ eve.pc = "lines" /\ Stream[CurrentLine] = None
    /\ eve' = LineDone
    /\ UNCHANGED consoleVars

(* handle_line of a flow: post_sensor, on some thread of the console ... *)
LinePosted(t) ==
    /\ eve.pc = "lines" /\ Stream[CurrentLine] # None
    /\ BeginIntake(t, "sensor", [pc |-> "event", shape |-> Stream[CurrentLine]])
    /\ eve' = [eve EXCEPT !.pc = "await", !.thread = t]

(* ... whose answer it waits for: 200, anything else, or none. *)
PostAnswered ==
    /\ eve.pc = "await" /\ Reply(eve.thread)
    /\ eve' = IF req[eve.thread].outcome \in {"stored", "duplicate"} THEN LineDone ELSE Dies

ConsoleGone == eve.pc = "await" /\ Crash /\ eve' = Dies

(* The timeout, or a signal; a request that was posted goes on. *)
FollowerStops ==
    /\ eve.pc # "dead" /\ Spend("stop")
    /\ eve' = Dies
    /\ UNCHANGED <<flows, lastId, campaigns, store, books, keys, cases, range, notes, req, post>>

FollowerStarts ==
    /\ eve.pc = "dead" /\ Spend("restart")
    /\ eve' = [Over(Fresh, eve) EXCEPT !.due = {}, !.stale = FALSE, !.blind = FALSE]
    /\ UNCHANGED <<flows, lastId, campaigns, store, books, keys, cases, range, notes, req, post>>

(* The console takes its own steps, but ends no request that is waited for. *)
FollowedNext ==
    \/ Next /\ UNCHANGED eve /\ (eve.pc = "await" => req'[eve.thread] # Idle)
    \/ SuricataWrites \/ Rotated
    \/ EveLooked \/ EveRead \/ LinePassed
    \/ \E t \in Threads : LinePosted(t)
    \/ PostAnswered \/ ConsoleGone \/ FollowerStops \/ FollowerStarts

FollowedSpec == FollowedInit /\ [][FollowedNext]_followerVars

-----------------------------------------------------------------------------
CaughtUp == eve.pc = "look" /\ eve.positioned /\ ~eve.stale /\ eve.offset = Len(eve.text)

(* No line is handled twice or out of order; a flow the follower went past has   *)
(* its row, unless the purge took it; and unless a file grew past the old offset *)
(* before anybody looked, no line begun since the file is followed is skipped,   *)
(* in however many pieces it was read.                                           *)
LinesFollowed ==
    /\ \A i, j \in DOMAIN eve.handled : i < j => eve.handled[i] < eve.handled[j]
    /\ \A n \in ToSet(eve.handled) :
          Stream[n] # None => Shape[Stream[n]].noisy \/ BridgeRows(Stream[n]) # {}
    /\ ~eve.blind /\ eve.pc # "dead" =>
          \A n \in eve.due :
             \/ n \in ToSet(eve.handled)
             \/ /\ \A k \in ToSet(eve.handled) : k < n
                /\ CaughtUp => eve.written < 2 * n

(* No observation has two rows once a request of its kind has run alone, and     *)
(* none that Suricata wrote while it was followed is passed over.                *)
RowsStoredOnce == EventStoredOnce /\ OneScenarioRow /\ LinesFollowed
=============================================================================
