--------------------------- MODULE ChannelPoller ----------------------------
(***************************************************************************)
(* A Channel (include/Channel.h, src/Channel.cc) and its registration with *)
(* an EPollPoller (src/EPollPoller.cc: updateChannel, removeChannel,       *)
(* update), as operators on one record:                                    *)
(*   events      events_, what the channel wants                           *)
(*   index       index_: kNew, kAdded or kDeleted                          *)
(*   mapped      the channel is in channels_                               *)
(*   registered  the kernel's epoll set holds the descriptor               *)
(*   interest    the events the kernel watches it for                      *)
(*   aborted     an epoll_ctl failed for ADD or MOD: LOG_FATAL aborts      *)
(***************************************************************************)
EXTENDS FiniteSets

kNew == "new"
kAdded == "added"
kDeleted == "deleted"

kNoneEvent == {}
kReadEvent == {"in"}
kWriteEvent == {"out"}

NewChannel ==
    [events |-> kNoneEvent, index |-> kNew, mapped |-> FALSE,
     registered |-> FALSE, interest |-> {}, aborted |-> FALSE]

isNoneEvent(ch) == ch.events = kNoneEvent
isWriting(ch) == "out" \in ch.events

-----------------------------------------------------------------------------
(* EPollPoller::update: epoll_ctl.  ADD of a descriptor that is there and  *)
(* MOD of one that is not are errors, and so is DEL of one that is not,    *)
(* which is only logged.                                                   *)

CtlAdd(ch) ==
    IF ch.registered THEN [ch EXCEPT !.aborted = TRUE]
    ELSE [ch EXCEPT !.registered = TRUE, !.interest = ch.events]

CtlMod(ch) ==
    IF ~ch.registered THEN [ch EXCEPT !.aborted = TRUE]
    ELSE [ch EXCEPT !.interest = ch.events]

CtlDel(ch) == [ch EXCEPT !.registered = FALSE, !.interest = {}]

MutUpdateForgetsDeleted(ch) ==
    IF ch.index \in {kNew, kDeleted}
    THEN CtlAdd([ch EXCEPT !.index = kAdded,
                           !.mapped = ch.mapped \/ ch.index = kNew])
    ELSE IF isNoneEvent(ch) THEN CtlDel(ch) ELSE CtlMod(ch)

updateChannel(ch) ==
    IF ch.index \in {kNew, kDeleted}
    THEN CtlAdd([ch EXCEPT !.index = kAdded,
                           !.mapped = ch.mapped \/ ch.index = kNew])
    ELSE IF isNoneEvent(ch) THEN [CtlDel(ch) EXCEPT !.index = kDeleted]
    ELSE CtlMod(ch)

removeChannel(ch) ==
    LET erased == [ch EXCEPT !.mapped = FALSE]
        gone == IF ch.index = kAdded THEN CtlDel(erased) ELSE erased
    IN  [gone EXCEPT !.index = kNew]

-----------------------------------------------------------------------------
(* Channel::enableReading and its siblings, each ending in update(). *)

enableReading(ch) == updateChannel([ch EXCEPT !.events = @ \cup kReadEvent])
enableWriting(ch) == updateChannel([ch EXCEPT !.events = @ \cup kWriteEvent])
disableWriting(ch) == updateChannel([ch EXCEPT !.events = @ \ kWriteEvent])
disableAll(ch) == updateChannel([ch EXCEPT !.events = kNoneEvent])

-----------------------------------------------------------------------------
(* What the poller and the kernel must agree on: index_ says whether the   *)
(* kernel holds the descriptor, and what it watches for is what the        *)
(* channel wants.                                                          *)
Consistent(ch) ==
    /\ ~ch.aborted
    /\ ch.registered <=> ch.index = kAdded
    /\ ch.registered => ch.interest = ch.events
    /\ ch.mapped <=> ch.index # kNew
=============================================================================
