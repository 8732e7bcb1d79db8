------------------------------ MODULE Community ------------------------------
(***************************************************************************)
(* The Discord community: the server's setup and cleanup, its panels,      *)
(* rules, self-service roles, private tickets, announcements and           *)
(* moderation cases.                                                       *)
(*                                                                         *)
(* Source: app/discord_business (service.py, operations.py, models.py,     *)
(* discord.py) and on_message in app/discord_bot.py.                       *)
(*                                                                         *)
(* The bot is one event loop: a handler runs alone between two awaits, and *)
(* its database calls block the loop.  It awaits Discord first and commits *)
(* what Discord did afterwards.  Rows that are written without an await    *)
(* and that nothing else reads (onboarding, availability, incidents,       *)
(* snapshots, staff notes) are left out, as are names, permissions and     *)
(* edits of things that are there.                                         *)
(***************************************************************************)
EXTENDS CeleryWorkers, Sequences

CONSTANTS
    Layout,         \* the items of plan_resources, in their order
    MemberRole,     \* the role that accepting the rules gives
    Desk,           \* the category of private tickets
    Forum,          \* a channel that used to be a text channel
    Badges,         \* self-service roles, in their order
    MaxThings,      \* bound: things made on the server, messages sent
    MaxTickets      \* bound: tickets, and moderation cases

ASSUME CommunityAssumption ==
    /\ IsFiniteSet(Layout)
    /\ Layout = 1..Cardinality(Layout) /\ {MemberRole, Desk, Forum} \subseteq Layout
    /\ IsFiniteSet(Badges) /\ Badges = 1..Cardinality(Badges)
    /\ {MaxThings, MaxTickets} \subseteq Nat

VARIABLES
    server,     \* the things made on the server, also deleted ones, by their ids
    obsolete,   \* something of an older layout: its row, and the thing itself
    guild,      \* the row of discord_guild_configs
    registry,   \* discord_guild_resources: the id of each item
    panel,      \* messages sent for a panel, and the id in discord_published_embeds
    member,     \* a member: role and acceptance, badges and discord_role_grants
    ticket,     \* discord_tickets by number, and the private channels made
    notice,     \* an announcement, and the messages sent for it
    cases       \* discord_moderation_cases by number, and their appeals

communityRows == <<server, obsolete, guild, registry, panel, member, ticket, notice, cases>>
setupRows == <<server, obsolete, guild, registry, panel>>

ServerThings == [item : Layout, fits : BOOLEAN, alive : BOOLEAN]
TicketStatuses ==
    {"NEW", "OPEN", "WAITING_FOR_STAFF", "WAITING_FOR_CUSTOMER", "ESCALATED",
     "RESOLVED", "REOPENED", "CLOSED", "SPAM", "DUPLICATE"}
GrantStatuses == {"NONE", "ACTIVE", "REMOVED"}
Tickets == 1..MaxTickets

CommunityTypeOK ==
    /\ server \in Seq(ServerThings) /\ Len(server) <= MaxThings
    /\ obsolete \in [row : BOOLEAN, alive : BOOLEAN]
    /\ guild \in [row : BOOLEAN, state : {"PREVIEW", "APPLIED"}]
    /\ registry \in [Layout -> 0..MaxThings]
    /\ panel \in [sent : 0..MaxThings, saved : 0..MaxThings]
    /\ member \in [role : BOOLEAN, accepted : BOOLEAN, badges : SUBSET Badges,
                   grants : [Badges -> GrantStatuses]]
    /\ ticket \in [rows : [Tickets -> TicketStatuses \cup {"ABSENT"}],
                   channels : 0..MaxTickets]
    /\ notice \in [status : {"ABSENT", "DRAFT", "PUBLISHED"}, sent : 0..MaxThings]
    /\ cases \in [Tickets -> {"ABSENT", "OPEN", "APPEALED"}]

-----------------------------------------------------------------------------
(* The event loop.                                                         *)

BotOps == {"SETUP", "PANELS", "RESET", "RULES", "ROLES", "TICKET", "ANNOUNCE", "MODERATE"}

(* A handler waits for the insert of another, and the loop with it, which  *)
(* the other needs to commit.                                              *)
Hung == \E o \in Operators : session[o].op \in BotOps /\ session[o].at = "waiting"
Called(o) == Free(o) /\ ~Hung
Resumes(o, op, place) == At(o, op, place) /\ ~Hung

(* guild_config() flushes the row of a server that has none and leaves the *)
(* commit to its caller; guild_id is unique, so a second insert waits.     *)
Inserting == ~guild.row /\ \E o \in Operators : session[o].op \in BotOps /\ session[o].inserts
Enter(o, s) ==
    Begin(o, [op |-> s.op, at |-> IF Inserting THEN "waiting" ELSE s.at,
              message |-> NoMessage, inserts |-> ~guild.row /\ ~Inserting, more |-> s.more])

BotSessions ==
    LET Ids == 0..MaxThings
        Bot(op, places, more) ==
            [op : {op}, at : places \cup {"waiting"}, message : {NoMessage},
             inserts : BOOLEAN, more : more]
    IN  Bot("SETUP", {"placing", "placed"},
            [item : Layout, found : Ids, ids : [Layout -> Ids], absent : SUBSET Layout,
             panels : BOOLEAN])
        \cup Bot("RESET", {"obsolete", "replaced", "deleted"}, {0})
        \cup Bot("PANELS", {"posting"}, Ids)
        \cup Bot("PANELS", {"posted"}, [id : Ids, absent : BOOLEAN])
        \cup Bot("RULES", {"giving", "given"}, BOOLEAN)
        \cup Bot("ROLES", {"changing"},
                 [selected : SUBSET Badges, todo : SUBSET Badges,
                  old : Seq([badge : Badges, was : GrantStatuses])])
        \cup Bot("TICKET", {"opening", "opened"}, 1..(MaxTickets + 1))
        \cup Bot("ANNOUNCE", {"sending", "sent"}, {0})
        \cup Bot("MODERATE", {"deleting"}, {0})

(* The bot is started again after it has hung.                             *)
RestartBot ==
    /\ Hung
    /\ session' = [a \in Actors |-> IF session[a].op \in BotOps THEN Idle ELSE session[a]]
    /\ UNCHANGED <<communityRows, messages, lost, faults>>

-----------------------------------------------------------------------------
(* Setup.                                                                  *)

Alive(id) == id # 0 /\ server[id].alive

(* What apply_server_plan takes for an item: the registered thing, else    *)
(* one with the item's name and type.  A registered thing of the wrong     *)
(* type is not taken, and then no other is looked for.                     *)
Named(i) == {id \in DOMAIN server : server[id] = [item |-> i, fits |-> TRUE, alive |-> TRUE]}
Found(i) ==
    CASE Alive(registry[i]) /\ server[registry[i]].fits -> registry[i]
      [] ~Alive(registry[i]) /\ Named(i) # {} -> CHOOSE id \in Named(i) : TRUE
      [] OTHER -> 0

Placing(i, ids, absent, panels) ==
    [item |-> i, found |-> Found(i), ids |-> ids, absent |-> absent, panels |-> panels]

(* /setup goes on to the panels, setup-repair does not.                    *)
CallSetup(o) ==
    /\ Called(o)
    /\ \E panels \in BOOLEAN :
          Enter(o, [op |-> "SETUP", at |-> "placing",
                    more |-> Placing(1, [i \in Layout |-> 0], {}, panels)])
    /\ UNCHANGED <<communityRows, messages, lost, faults>>

(* What is committed while the plan is carried out: nothing.  (Mutant:     *)
(* each item.)                                                             *)
EachItem(i, id) == [registry EXCEPT ![i] = id]
NoItemYet(i, id) == registry

(* Discord has the thing; the handler goes on to the next item.            *)
PlaceItem(o) ==
    LET s == session[o].more
        id == IF s.found # 0 THEN s.found ELSE Len(server) + 1
        ids == [s.ids EXCEPT ![s.item] = id]
        absent == s.absent \cup {i \in {s.item} : registry[i] = 0} IN
    /\ Resumes(o, "SETUP", "placing") /\ id <= MaxThings
    /\ server' = IF s.found # 0 THEN server
                 ELSE Append(server, [item |-> s.item, fits |-> TRUE, alive |-> TRUE])
    /\ registry' = NoItemYet(s.item, id)
    /\ IF s.item < Cardinality(Layout)
       THEN session' = [session EXCEPT ![o].more = Placing(s.item + 1, ids, absent, s.panels)]
       ELSE session' = [session EXCEPT ![o].at = "placed", ![o].more.ids = ids,
                                       ![o].more.absent = absent]
    /\ UNCHANGED <<obsolete, guild, panel, member, ticket, notice, cases, messages, lost, faults>>

(* One commit; or another setup has inserted a key that this one inserts.  *)
CommitSetup(o) ==
    LET s == session[o].more IN
    /\ Resumes(o, "SETUP", "placed")
    /\ IF \A i \in s.absent : registry[i] = 0
       THEN /\ registry' = s.ids
            /\ guild' = [row |-> TRUE, state |-> "APPLIED"]
            /\ IF s.panels
               THEN Begin(o, [op |-> "PANELS", at |-> "posting", message |-> NoMessage,
                              inserts |-> FALSE, more |-> panel.saved])
               ELSE End(o)
            /\ UNCHANGED lost
       ELSE /\ EndInException(o)
            /\ UNCHANGED <<registry, guild>>
    /\ UNCHANGED <<server, obsolete, panel, member, ticket, notice, cases, messages, faults>>

(* reset_legacy_setup with apply_changes: first what is registered and no  *)
(* longer in the layout, then text channels that a forum has replaced.     *)
CallReset(o) ==
    /\ Called(o)
    /\ Enter(o, [op |-> "RESET", at |-> "obsolete", more |-> 0])
    /\ UNCHANGED <<communityRows, messages, lost, faults>>

DeleteObsolete(o) ==
    /\ Resumes(o, "RESET", "obsolete")
    /\ obsolete' = [obsolete EXCEPT !.alive = FALSE]
    /\ Goto(o, "replaced")
    /\ UNCHANGED <<server, guild, registry, panel, member, ticket, notice, cases,
                   messages, lost, faults>>

Replaced(id) == ~server[id].fits /\ Named(server[id].item) # {}

DeleteReplaced(o) ==
    /\ Resumes(o, "RESET", "replaced")
    /\ server' = [id \in DOMAIN server |-> [server[id] EXCEPT !.alive = @ /\ ~Replaced(id)]]
    /\ Goto(o, "deleted")
    /\ UNCHANGED <<obsolete, guild, registry, panel, member, ticket, notice, cases,
                   messages, lost, faults>>

CommitReset(o) ==
    /\ Resumes(o, "RESET", "deleted")
    /\ obsolete' = [obsolete EXCEPT !.row = FALSE]
    /\ guild' = [row |-> TRUE, state |-> "APPLIED"]
    /\ End(o)
    /\ UNCHANGED <<server, registry, panel, member, ticket, notice, cases,
                   messages, lost, faults>>

(* setup-reset-preview.                                                    *)
ResetPreview(o) ==
    /\ Called(o) /\ guild.row
    /\ guild' = [guild EXCEPT !.state = "PREVIEW"]
    /\ UNCHANGED <<server, obsolete, registry, panel, member, ticket, notice, cases,
                   session, messages, lost, faults>>

(* publish_public_embeds edits or sends one message after another, and     *)
(* commits their ids when all are there; one stands for all.  Without      *)
(* their channels, which are registered with the desk, there are none.     *)
CallPanels(o) ==
    /\ Called(o) /\ (Alive(registry[Desk]) \/ Inserting)
    /\ Enter(o, [op |-> "PANELS", at |-> "posting", more |-> panel.saved])
    /\ UNCHANGED <<communityRows, messages, lost, faults>>

PostPanel(o) ==
    LET known == session[o].more
        id == IF known # 0 THEN known ELSE panel.sent + 1 IN
    /\ Resumes(o, "PANELS", "posting") /\ id <= MaxThings
    /\ panel' = [panel EXCEPT !.sent = IF known # 0 THEN @ ELSE id]
    /\ session' = [session EXCEPT ![o].at = "posted",
                                  ![o].more = [id |-> id, absent |-> panel.saved = 0]]
    /\ UNCHANGED <<server, obsolete, guild, registry, member, ticket, notice, cases,
                   messages, lost, faults>>

CommitPanels(o) ==
    LET s == session[o].more IN
    /\ Resumes(o, "PANELS", "posted")
    /\ IF s.absent /\ panel.saved # 0 THEN EndInException(o) /\ UNCHANGED panel
       ELSE /\ panel' = [panel EXCEPT !.saved = s.id]
            /\ End(o)
            /\ UNCHANGED lost
    /\ UNCHANGED <<server, obsolete, guild, registry, member, ticket, notice, cases,
                   messages, faults>>

-----------------------------------------------------------------------------
(* A member: the rules, and the roles that they choose for themselves.     *)

(* accept() gives the registered role before it commits; without one there *)
(* is nothing to await.                                                    *)
CallAccept(o) ==
    /\ Called(o) /\ (Alive(registry[MemberRole]) \/ Inserting)
    /\ Enter(o, [op |-> "RULES", at |-> "giving", more |-> member.accepted])
    /\ UNCHANGED <<communityRows, messages, lost, faults>>

AcceptAtOnce(o) ==
    /\ Called(o) /\ ~Alive(registry[MemberRole]) /\ ~Inserting
    /\ guild' = [guild EXCEPT !.row = TRUE]
    /\ member' = [member EXCEPT !.accepted = TRUE]
    /\ UNCHANGED <<server, obsolete, registry, panel, ticket, notice, cases,
                   session, messages, lost, faults>>

GiveRole(o) ==
    /\ Resumes(o, "RULES", "giving")
    /\ member' = [member EXCEPT !.role = TRUE]
    /\ Goto(o, "given")
    /\ UNCHANGED <<setupRows, ticket, notice, cases, messages, lost, faults>>

(* A second insert of the acceptance is an error.                          *)
CommitAccept(o) ==
    /\ Resumes(o, "RULES", "given")
    /\ IF member.accepted /\ ~session[o].more THEN EndInException(o) /\ UNCHANGED member
       ELSE /\ member' = [member EXCEPT !.accepted = TRUE]
            /\ End(o)
            /\ UNCHANGED lost
    /\ UNCHANGED <<setupRows, ticket, notice, cases, messages, faults>>

(* A selection is compared with the roles that the interaction came with,  *)
(* and Discord is asked for one change after another.                      *)
CallRoles(o) ==
    /\ Called(o) /\ Alive(registry[MemberRole])
    /\ \E selected \in SUBSET Badges :
          LET todo == (selected \ member.badges) \cup (member.badges \ selected) IN
          /\ todo # {}
          /\ Enter(o, [op |-> "ROLES", at |-> "changing",
                       more |-> [selected |-> selected, todo |-> todo, old |-> <<>>]])
    /\ UNCHANGED <<communityRows, messages, lost, faults>>

ChangeRole(o) ==
    LET s == session[o].more
        badge == CHOOSE b \in s.todo : \A c \in s.todo : b <= c IN
    /\ Resumes(o, "ROLES", "changing") /\ s.todo # {}
    /\ member' = [member EXCEPT !.badges = IF badge \in s.selected THEN @ \cup {badge}
                                                                  ELSE @ \ {badge}]
    /\ session' = [session EXCEPT
                     ![o].more.todo = @ \ {badge},
                     ![o].more.old = Append(@, [badge |-> badge, was |-> member.grants[badge]])]
    /\ UNCHANGED <<setupRows, ticket, notice, cases, messages, lost, faults>>

(* One commit of the grants: inserted, given again, or removed.            *)
CommitRoles(o) ==
    LET s == session[o].more
        old == {s.old[n] : n \in DOMAIN s.old}
        Granted(b) == IF b \in s.selected THEN "ACTIVE" ELSE "REMOVED" IN
    /\ Resumes(o, "ROLES", "changing") /\ s.todo = {}
    /\ IF \E g \in old : g.was = "NONE" /\ member.grants[g.badge] # "NONE"
       THEN EndInException(o) /\ UNCHANGED member
       ELSE /\ member' = [member EXCEPT !.grants = [b \in Badges |->
                             IF \E g \in old : g.badge = b /\ g.was # Granted(b)
                             THEN Granted(b) ELSE @[b]]]
            /\ End(o)
            /\ UNCHANGED lost
    /\ UNCHANGED <<setupRows, ticket, notice, cases, messages, faults>>

-----------------------------------------------------------------------------
(* Tickets.                                                                *)

(* The number of a new ticket: the largest and one.  (Mutant: as it was    *)
(* when the channel was asked for.)                                        *)
Filed == {n \in Tickets : ticket.rows[n] # "ABSENT"}
FirstNumber(s) == s.more
TicketNumber(s) == Cardinality(Filed) + 1

CallTicket(o) ==
    /\ Called(o) /\ (Alive(registry[Desk]) \/ Inserting)
    /\ Enter(o, [op |-> "TICKET", at |-> "opening", more |-> Cardinality(Filed) + 1])
    /\ UNCHANGED <<communityRows, messages, lost, faults>>

OpenChannel(o) ==
    /\ Resumes(o, "TICKET", "opening") /\ ticket.channels < MaxTickets
    /\ ticket' = [ticket EXCEPT !.channels = @ + 1]
    /\ Goto(o, "opened")
    /\ UNCHANGED <<setupRows, member, notice, cases, messages, lost, faults>>

(* open_ticket and prepare_ticket; the numbers are unique.                 *)
FileTicket(o) ==
    LET n == TicketNumber(session[o]) IN
    /\ Resumes(o, "TICKET", "opened")
    /\ IF n \in Filed THEN EndInException(o) /\ UNCHANGED ticket
       ELSE /\ ticket' = [ticket EXCEPT !.rows[n] = "NEW"]
            /\ End(o)
            /\ UNCHANGED lost
    /\ UNCHANGED <<setupRows, member, notice, cases, messages, faults>>

TicketTransitions ==
    [s \in TicketStatuses |->
        CASE s = "NEW" -> {"OPEN", "SPAM", "DUPLICATE", "CLOSED"}
          [] s = "OPEN" -> {"WAITING_FOR_STAFF", "WAITING_FOR_CUSTOMER", "ESCALATED",
                            "RESOLVED", "CLOSED", "SPAM", "DUPLICATE"}
          [] s = "WAITING_FOR_STAFF" -> {"OPEN", "ESCALATED", "RESOLVED", "CLOSED"}
          [] s = "WAITING_FOR_CUSTOMER" -> {"OPEN", "RESOLVED", "CLOSED"}
          [] s = "ESCALATED" -> {"OPEN", "WAITING_FOR_CUSTOMER", "RESOLVED", "CLOSED"}
          [] s = "RESOLVED" -> {"REOPENED", "CLOSED"}
          [] s = "REOPENED" -> {"OPEN", "WAITING_FOR_STAFF", "ESCALATED", "RESOLVED", "CLOSED"}
          [] s = "CLOSED" -> {"REOPENED"}
          [] s \in {"SPAM", "DUPLICATE"} -> {"CLOSED"}]

(* ticket-status and the ticket's own buttons; ticket-assign; ticket-note, *)
(* which makes any ticket wait for its customer when they may see it.      *)
MoveTicket(o) ==
    /\ Called(o)
    /\ \E n \in Filed :
          \E status \in TicketTransitions[ticket.rows[n]]
                        \cup (IF ticket.rows[n] = "NEW" THEN {"WAITING_FOR_STAFF"} ELSE {})
                        \cup {"WAITING_FOR_CUSTOMER"} :
             ticket' = [ticket EXCEPT !.rows[n] = status]
    /\ UNCHANGED <<setupRows, member, notice, cases, session, messages, lost, faults>>

-----------------------------------------------------------------------------
(* Announcements and moderation.                                           *)

DraftNotice(o) ==
    /\ Called(o) /\ guild.row /\ notice.status = "ABSENT"
    /\ notice' = [notice EXCEPT !.status = "DRAFT"]
    /\ UNCHANGED <<setupRows, member, ticket, cases, session, messages, lost, faults>>

(* announcement-publish looks for a draft, sends it, and commits that it   *)
(* is PUBLISHED.                                                           *)
CallPublish(o) ==
    /\ Called(o) /\ notice.status = "DRAFT" /\ Alive(registry[Desk])
    /\ Enter(o, [op |-> "ANNOUNCE", at |-> "sending", more |-> 0])
    /\ UNCHANGED <<communityRows, messages, lost, faults>>

SendNotice(o) ==
    /\ Resumes(o, "ANNOUNCE", "sending") /\ notice.sent < MaxThings
    /\ notice' = [notice EXCEPT !.sent = @ + 1]
    /\ Goto(o, "sent")
    /\ UNCHANGED <<setupRows, member, ticket, cases, messages, lost, faults>>

CommitNotice(o) ==
    /\ Resumes(o, "ANNOUNCE", "sent")
    /\ notice' = [notice EXCEPT !.status = "PUBLISHED"]
    /\ End(o)
    /\ UNCHANGED <<setupRows, member, ticket, cases, messages, lost, faults>>

(* on_message deletes what the rules forbid, then opens a case, unless the *)
(* server is not set up.                                                   *)
CallModeration(o) ==
    /\ Called(o)
    /\ Begin(o, [op |-> "MODERATE", at |-> "deleting", message |-> NoMessage,
                 inserts |-> FALSE, more |-> 0])
    /\ UNCHANGED <<communityRows, messages, lost, faults>>

Opened == {n \in Tickets : cases[n] # "ABSENT"}

OpenCase(o) ==
    /\ Resumes(o, "MODERATE", "deleting") /\ Cardinality(Opened) < MaxTickets
    /\ cases' = IF guild.row THEN [cases EXCEPT ![Cardinality(Opened) + 1] = "OPEN"] ELSE cases
    /\ End(o)
    /\ UNCHANGED <<setupRows, member, ticket, notice, messages, lost, faults>>

(* appeal_case, once for each case.                                        *)
AppealCase(o) ==
    /\ Called(o)
    /\ \E n \in Opened : cases[n] = "OPEN" /\ cases' = [cases EXCEPT ![n] = "APPEALED"]
    /\ UNCHANGED <<setupRows, member, ticket, notice, session, messages, lost, faults>>

-----------------------------------------------------------------------------
CommunityInit ==
    /\ server = <<>> /\ obsolete = [row |-> FALSE, alive |-> FALSE]
    /\ guild = [row |-> FALSE, state |-> "PREVIEW"] /\ registry = [i \in Layout |-> 0]
    /\ panel = [sent |-> 0, saved |-> 0]
    /\ member = [role |-> FALSE, accepted |-> FALSE, badges |-> {},
                 grants |-> [b \in Badges |-> "NONE"]]
    /\ ticket = [rows |-> [n \in Tickets |-> "ABSENT"], channels |-> 0]
    /\ notice = [status |-> "ABSENT", sent |-> 0]
    /\ cases = [n \in Tickets |-> "ABSENT"]

CommunityHandler(o) ==
    \/ CallSetup(o) \/ PlaceItem(o) \/ CommitSetup(o) \/ ResetPreview(o)
    \/ CallReset(o) \/ DeleteObsolete(o) \/ DeleteReplaced(o) \/ CommitReset(o)
    \/ CallPanels(o) \/ PostPanel(o) \/ CommitPanels(o)
    \/ CallAccept(o) \/ AcceptAtOnce(o) \/ GiveRole(o) \/ CommitAccept(o)
    \/ CallRoles(o) \/ ChangeRole(o) \/ CommitRoles(o)
    \/ CallTicket(o) \/ OpenChannel(o) \/ FileTicket(o) \/ MoveTicket(o)
    \/ DraftNotice(o) \/ CallPublish(o) \/ SendNotice(o) \/ CommitNotice(o)
    \/ CallModeration(o) \/ OpenCase(o) \/ AppealCase(o)

(* Whatever fails, is repeated or overlaps, the rows tell no more than     *)
(* what Discord has seen: the registry is that of one completed setup,     *)
(* each item under the id of its own thing, the panel's message and a      *)
(* published announcement were sent.  And they miss little of it: every    *)
(* ticket channel has its row, but for those whose handler is still at it  *)
(* or was interrupted.                                                     *)
RowsFollowDiscord ==
    /\ \/ \A i \in Layout : registry[i] = 0
       \/ \A i \in Layout : registry[i] \in DOMAIN server /\ server[registry[i]].item = i
    /\ panel.saved <= panel.sent
    /\ notice.status = "PUBLISHED" => notice.sent > 0
    /\ LET opened == {o \in Operators : At(o, "TICKET", "opened")} IN
       /\ Cardinality(Filed) + Cardinality(opened) <= ticket.channels
       /\ ticket.channels <= Cardinality(Filed) + Cardinality(opened) + faults
=============================================================================
