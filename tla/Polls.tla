-------------------------------- MODULE Polls --------------------------------
(***************************************************************************)
(* The content of one poll (src/src/polls.rs) and its three ways to the    *)
(* application: the executor of src/src/events.rs assembles the poll anew  *)
(* for each of its events, the answer to a vote brings it assembled, and a *)
(* fetch builds it from the events that the cached message has got from    *)
(* this fetch and earlier ones (src/src/memory_cache.rs).  On each of them *)
(* time passes between the load of the events and the delivery.            *)
(***************************************************************************)
EXTENDS Naturals, Sequences, SequencesExt

CONSTANTS
    Voters,        \* users who respond
    Starts,        \* contents of a start event: how many options may be chosen, and which
    Answers,       \* lists of options a response may have
    Calls,         \* requests of the application that may run at a time
    MaxPollEvents  \* bound: events that relate to the poll

ASSUME PollsAssumption ==
    /\ MaxPollEvents \in Nat
    /\ \A s \in Starts : s.max \in Nat

VARIABLES
    start,   \* the content of the event that starts the poll
    events,  \* the events that relate to it, by their time
    synced,  \* how many of them the executor has taken
    exec,    \* whether it has assembled the poll for the next one, and from how many
    relations, \* which of them the cached message has
    call,    \* what each request of the application is at
    shown    \* the content the application shows, where it comes from and what it knew

pollVars == <<start, events, synced, exec, relations, call, shown>>

(* A request has loaded the first `from` events; a fetch has `next` of     *)
(* them left to cache, and builds the poll from those that are `known`.    *)
NoCall == [at |-> "idle", from |-> 0, next |-> 0, known |-> {}]

(* An edit may be of a kind this program does not know (odd).  A response  *)
(* may name too many options, one twice, or one that does not exist.       *)
PollEvents ==
    [t : {"edit"}, start : Starts, odd : BOOLEAN]
      \cup [t : {"response"}, u : Voters, answers : Answers]
      \cup [t : {"end"}]

-----------------------------------------------------------------------------
(* polls.rs: a MessageContentPoll has the voters of every option.          *)

assemble_poll_start(s) ==
    [max |-> s.max, completed |-> FALSE, votes |-> [o \in s.options |-> {}]]

replace_content(content, new) ==
    [content EXCEPT !.max = new.max, !.votes = [o \in new.options |-> {}]]

clear_user_answers(content, u) ==
    [content EXCEPT !.votes = [o \in DOMAIN content.votes |-> content.votes[o] \ {u}]]

(* Fault: the earlier answers of the user are kept.                        *)
add_answer_keeps(content, u, answers) ==
    [content EXCEPT !.votes = [o \in DOMAIN content.votes |->
        IF \E i \in DOMAIN answers : i <= content.max /\ answers[i] = o
          THEN content.votes[o] \cup {u} ELSE content.votes[o]]]

add_answer(content, u, answers) ==
    LET cleared == clear_user_answers(content, u)
    IN  [cleared EXCEPT !.votes = [o \in DOMAIN cleared.votes |->
           IF \E i \in DOMAIN answers : i <= content.max /\ answers[i] = o
             THEN cleared.votes[o] \cup {u} ELSE cleared.votes[o]]]

(* The content after event e.                                              *)
ApplyEvent(content, e) ==
    CASE e.t = "edit"     -> replace_content(content, e.start)
      [] e.t = "response" -> add_answer(content, e.u, e.answers)
      [] e.t = "end"      -> [content EXCEPT !.completed = TRUE]

IsOdd(e) == e.t = "edit" /\ e.odd

(* assemble_poll fails at an edit of an unknown kind.                      *)
Assembles(es) == \A i \in DOMAIN es : ~IsOdd(es[i])

(* The content after the events at the given positions.                    *)
ApplyAll(content, es, S) ==
    LET after[n \in 0 .. Len(es)] ==
          IF n = 0 THEN content
          ELSE IF n \in S THEN ApplyEvent(after[n - 1], es[n]) ELSE after[n - 1]
    IN  after[Len(es)]

assemble_poll(es) == ApplyAll(assemble_poll_start(start), es, DOMAIN es)

(* The last of a set of positions, 0 if there is none.                     *)
LastOf(S) == Max({0} \cup S)

(* build_poll with the events the cached message has: the last edit, then  *)
(* all responses, then the end.                                            *)
build_poll(es, known) ==
    LET edit == LastOf({i \in known : es[i].t = "edit"})
        edited == IF edit = 0 THEN assemble_poll_start(start)
                  ELSE replace_content(assemble_poll_start(start), es[edit].start)
        voted == ApplyAll(edited, es, {i \in known : es[i].t = "response"})
    IN  [voted EXCEPT !.completed = \E i \in known : es[i].t = "end"]

-----------------------------------------------------------------------------

(* The poll has been started and received.                                 *)
PollInit ==
    /\ start \in Starts
    /\ events = <<>>
    /\ synced = 0
    /\ exec = [assembled |-> FALSE, from |-> 0]
    /\ relations = {}
    /\ call = [c \in Calls |-> NoCall]
    /\ shown = [content |-> assemble_poll_start(start), fetched |-> FALSE,
                from |-> 0, known |-> {}]

(* Somebody edits the poll, responds to it or ends it.                     *)
SendPollEvent ==
    /\ Len(events) < MaxPollEvents
    /\ \E e \in PollEvents : events' = Append(events, e)
    /\ UNCHANGED <<start, synced, exec, relations, call, shown>>

(* exec_unstable_poll_response_event and those of an edit and an end       *)
(* assemble the poll from what the SDK or the homeserver has, which may be *)
(* ahead of the executor or not have the event yet.                        *)
AssemblePoll ==
    /\ ~exec.assembled /\ synced < Len(events)
    /\ \E n \in synced .. Len(events) :
         IF Assembles(SubSeq(events, 1, n))
         THEN exec' = [assembled |-> TRUE, from |-> n] /\ UNCHANGED synced
         ELSE synced' = synced + 1 /\ UNCHANGED exec
    /\ UNCHANGED <<start, events, relations, call, shown>>

(* Then they apply the event to it and send the change.                    *)
SendPollChange ==
    /\ exec.assembled
    /\ LET upto == Max({exec.from, synced + 1})
       IN  shown' = [content |-> ApplyEvent(assemble_poll(SubSeq(events, 1, exec.from)),
                                            events[synced + 1]),
                     fetched |-> FALSE, from |-> upto, known |-> 1 .. upto]
    /\ synced' = synced + 1
    /\ exec' = [assembled |-> FALSE, from |-> 0]
    /\ UNCHANGED <<start, events, relations, call>>

(* A page begins at the newest event or at an older one the application    *)
(* names and goes back to the start of the poll; a single message is       *)
(* loaded with its relations.                                              *)
BeginFetch(c) ==
    /\ call[c].at = "idle"
    /\ \E n \in 0 .. Len(events) :
         call' = [call EXCEPT ![c] = [at |-> "fetch", from |-> n, next |-> n, known |-> {}]]
    /\ UNCHANGED <<start, events, synced, exec, relations, shown>>

(* process_timeline_event of an event that relates to the poll.            *)
CacheRelation(c) ==
    /\ call[c].at = "fetch" /\ call[c].next > 0
    /\ relations' = relations \cup {call[c].next}
    /\ call' = [call EXCEPT ![c].next = call[c].next - 1]
    /\ UNCHANGED <<start, events, synced, exec, shown>>

(* process_new_unstable_poll_start: the poll is built from what is cached, *)
(* by whomever, and is on its way to the application.                      *)
BuildPoll(c) ==
    /\ call[c].at = "fetch" /\ call[c].next = 0
    /\ call' = [call EXCEPT ![c] = [at |-> "built", from |-> call[c].from, next |-> 0,
                                   known |-> relations]]
    /\ UNCHANGED <<start, events, synced, exec, relations, shown>>

(* The page has enough messages or fails before it comes to the poll.      *)
EndFetch(c) ==
    /\ call[c].at = "fetch"
    /\ call' = [call EXCEPT ![c] = NoCall]
    /\ UNCHANGED <<start, events, synced, exec, relations, shown>>

(* get_messages and get_message hand the built poll over.                  *)
DeliverFetched(c) ==
    /\ call[c].at = "built"
    /\ shown' = [content |-> build_poll(events, call[c].known), fetched |-> TRUE,
                 from |-> call[c].from, known |-> call[c].known]
    /\ call' = [call EXCEPT ![c] = NoCall]
    /\ UNCHANGED <<start, events, synced, exec, relations>>

(* answer_poll: after the response has been sent, the poll is assembled    *)
(* from what the SDK has; this need not have the response yet.             *)
AnswerPoll(c) ==
    /\ call[c].at = "idle"
    /\ \E n \in synced .. Len(events) :
         /\ Assembles(SubSeq(events, 1, n))
         /\ call' = [call EXCEPT ![c] = [at |-> "answer", from |-> n, next |-> 0,
                                         known |-> 1 .. n]]
    /\ UNCHANGED <<start, events, synced, exec, relations, shown>>

DeliverAnswer(c) ==
    /\ call[c].at = "answer"
    /\ shown' = [content |-> assemble_poll(SubSeq(events, 1, call[c].from)), fetched |-> FALSE,
                 from |-> call[c].from, known |-> call[c].known]
    /\ call' = [call EXCEPT ![c] = NoCall]
    /\ UNCHANGED <<start, events, synced, exec, relations>>

PollNext ==
    \/ SendPollEvent \/ AssemblePoll \/ SendPollChange
    \/ \E c \in Calls : \/ BeginFetch(c) \/ CacheRelation(c) \/ BuildPoll(c) \/ EndFetch(c)
                       \/ DeliverFetched(c) \/ AnswerPoll(c) \/ DeliverAnswer(c)

PollSpec == PollInit /\ [][PollNext]_pollVars

-----------------------------------------------------------------------------

LastEdit == LastOf({i \in DOMAIN events : events[i].t = "edit"})

EditedStart == IF LastEdit = 0 THEN start ELSE events[LastEdit].start

NewestResponse(u) ==
    LastOf({i \in DOMAIN events : events[i].t = "response" /\ events[i].u = u})

ResponseCounts(u) ==
    NewestResponse(u) > 0 /\ (NewestResponse(u) > LastEdit \/ shown.fetched)

VotesFor(o) ==
    {u \in Voters : /\ ResponseCounts(u)
                    /\ LET answers == events[NewestResponse(u)].answers
                       IN  \E i \in DOMAIN answers : i <= EditedStart.max /\ answers[i] = o}

(* What is shown was loaded after the newest event, or what other fetches  *)
(* had cached made up for it.                                              *)
UpToDate == shown.from = Len(events) \/ shown.known = DOMAIN events

(* add_answer, replace_content and the executor, which applies an event to *)
(* a poll that may already have later ones; build_poll, which takes what   *)
(* all fetches have cached: once the executor has taken all events, and if *)
(* nothing older was delivered after it, every user's votes are the first  *)
(* ones of his newest response, as many as the newest edit allows, for the *)
(* options it has, and a response from before that edit only counts in a   *)
(* fetched poll.  An edit of an unknown kind keeps the executor from       *)
(* assembling the poll and is left out.                                    *)
VotesCounted ==
    synced = Len(events) /\ Assembles(events) /\ UpToDate =>
      /\ DOMAIN shown.content.votes = EditedStart.options
      /\ \A o \in EditedStart.options : shown.content.votes[o] = VotesFor(o)
      /\ shown.content.completed = \E i \in DOMAIN events : events[i].t = "end"

=============================================================================
