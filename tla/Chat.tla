-------------------------------- MODULE Chat --------------------------------
(***************************************************************************)
(* A user's Telegram chat around the assistant's turns: the link that says *)
(* whose chat it is (linking.service.ts), the router that tells commands,  *)
(* taps of the docked keyboard and messages apart (inbound-router.ts), and *)
(* the deterministic keyboard actions (keyboard-action.service.ts) over    *)
(* the stores of the docked surface and of the menu card. The handlers run *)
(* in the webhook workers of Ingress, outside the per-user lock, next to   *)
(* the app's own link requests.                                            *)
(*                                                                         *)
(* A nonce, the link row it makes and the menu card a tap sends are named  *)
(* by the run they come from: an update, and which of its runs (a second   *)
(* one is admitted once the dedupe key has run out).                       *)
(***************************************************************************)
EXTENDS Ingress, Sequences

CONSTANTS
    Users, Chats,
    First,  (* the update whose nonce made the link the chat may start with   *)
    None    (* SQL's and Redis' null, which names nothing                     *)

ASSUME ChatConstants ==
    First \in Updates /\ None \notin Updates \X Nat /\ None \notin Chats /\ Chats # {}

VARIABLES
    run,     (* of an update being handled: its locals and what is left to do  *)
    link,    (* of a user: the TelegramLink row, [id, chat], or None           *)
    nonces,  (* the live nonces in Redis, [code, chat]                         *)
    app,     (* of a user: the link request of the app that is running         *)
    docked,  (* of a chat, in Telegram: the keyboard docked there              *)
    cards,   (* of a chat, in Telegram: the menu cards in it                   *)
    surface, (* of a user, in Redis: the active-surface flag                   *)
    menu,    (* of a user, in Redis: the tracked menu card                     *)
    flagged, (* history: the chat in which a user's flag was last set, cleared *)
    binds,   (* history: how often a nonce wrote a link                        *)
    left,    (* history: the cards no one is to delete any more                *)
    raced    (* history: two updates were handled at once                      *)

chatVars == <<run, link, nonces, app, docked, cards, surface, menu, flagged, binds, left, raced>>
vars == <<ingressVars, chatVars>>

Surfaces == {"main", "settings", "menu"}

\* SURFACE_ACTIONS: the labels a docked surface owns; Open Menu on every one.
OwnedBy == [main     |-> {"schedule", "settings", "open_menu"},
            settings |-> {"disconnect", "back", "open_menu"},
            menu     |-> {"settings", "logout", "back", "open_menu"},
            none     |-> {}]

\* What an update says: a button's label, another text, /start, another command.
Labels == UNION {OwnedBy[s] : s \in Surfaces}
Words == Labels \cup {"text", "/start", "/other"}

\* Mutant: Back docks the main keyboard and forgets the flag.
CallsBackForgets ==
    [schedule |-> <<"read", "send", "set">>, settings |-> <<"send", "set">>,
     back |-> <<"send">>,
     open_menu |-> <<"status", "send", "take", "retire", "record", "set">>,
     logout |-> <<"find", "delete", "clear", "untrack", "remove">>,
     disconnect |-> <<"find", "delete", "clear", "remove">>]

\* What a handler does, one call after the other.
Calls == [schedule   |-> <<"read", "send", "set">>,
          settings   |-> <<"send", "set">>,
          back       |-> <<"send", "set">>,
          open_menu  |-> <<"status", "send", "take", "retire", "record", "set">>,
          logout     |-> <<"find", "delete", "clear", "untrack", "remove">>,
          disconnect |-> <<"find", "delete", "clear", "remove">>]

\* handleCommand reads and persists through the database and replies in between; /start
\* then docks the main keyboard.
CommandCalls(word) ==
    IF word = "/start" THEN <<"read command", "persist", "send", "set">>
    ELSE <<"read command", "persist">>

\* The keyboard a sent message docks, and the flag that is to name it.
Docks(word) == IF word = "settings" THEN "settings"
               ELSE IF word = "open_menu" THEN "menu" ELSE "main"

\* The run of an update that is being handled, as a name of what it creates.
Ids == Updates \X (1..MaxExpiries + 1)
Id(u) == <<u, admitted[u]>>

NoRun == [todo |-> <<>>]
NoRequest == [at |-> "idle"]

\* Of the updates, First was handled long ago (its key drops it when it is posted again,
\* which Next leaves out). Its chat is linked since, with the main
\* keyboard docked, or nobody is linked yet.
Init ==
    /\ IngressStart({First})
    /\ run = [u \in Updates |-> NoRun]
    /\ nonces = {}
    /\ app = [v \in Users |-> NoRequest]
    /\ cards = [c \in Chats |-> {}]
    /\ menu = [v \in Users |-> None]
    /\ binds = [m \in Ids |-> 0]
    /\ left = {} /\ raced = FALSE
    /\ \/ /\ link = [v \in Users |-> None]
          /\ docked = [c \in Chats |-> "none"]
          /\ surface = [v \in Users |-> "none"]
          /\ flagged = [v \in Users |-> None]
       \/ \E v \in Users, c \in Chats :
            /\ link = [w \in Users |-> IF w = v THEN [id |-> <<First, 1>>, chat |-> c] ELSE None]
            /\ docked = [d \in Chats |-> IF d = c THEN "main" ELSE "none"]
            /\ surface = [w \in Users |-> IF w = v THEN "main" ELSE "none"]
            /\ flagged = [w \in Users |-> IF w = v THEN c ELSE None]

-----------------------------------------------------------------------------
(* How a handler's calls end                                               *)

Doing(u, call) ==
    /\ job[u] = "handling" /\ run[u].todo # <<>> /\ Head(run[u].todo) = call

\* The call is over; r holds the locals it leaves, and after the last one the handler
\* returns.
Goes(u, r) ==
    /\ IF Len(r.todo) = 1
       THEN Return(u) /\ run' = [run EXCEPT ![u] = NoRun]
       ELSE /\ run' = [run EXCEPT ![u] = [r EXCEPT !.todo = Tail(@)]]
            /\ UNCHANGED <<job, stalled, keys, admitted, expired, crashes>>

GoesOn(u) == Goes(u, run[u]) /\ UNCHANGED faults

\* A fault the callee swallows: the handler goes on without the call's effect.
Swallowed(u, r) == Goes(u, r) /\ Strikes

Throws(u) == Throw(u) /\ run' = [run EXCEPT ![u] = NoRun]

Untouched(u) ==
    UNCHANGED <<link, nonces, app, docked, cards, surface, menu, flagged, binds, left, raced>>

-----------------------------------------------------------------------------
(* Routing                                                                 *)

\* process: the chat's link is looked up. Two users may be linked to one chat (the
\* column is not unique): either row may be found. An unlinked chat is sent a nonce.
Resolve(u) ==
    /\ job[u] = "handling" /\ run[u].todo = <<>>
    /\ \/ \E c \in Chats :
            LET owners == {v \in Users : link[v] # None /\ link[v].chat = c} IN
            /\ \E v \in (IF owners = {} THEN {None} ELSE owners) :
                 run' = [run EXCEPT ![u] =
                          [todo |-> IF v = None THEN <<"mint", "prompt">> ELSE <<"route">>,
                           chat |-> c, user |-> v, word |-> "text",
                           row |-> None, landed |-> FALSE, prior |-> None]]
            /\ UNCHANGED ingressVars
       \/ Throws(u)
    /\ raced' = (raced \/ \E w \in Updates \ {u} : run[w].todo # <<>>)
    /\ UNCHANGED <<link, nonces, app, docked, cards, surface, menu, flagged, binds, left>>

\* beginLinking: the nonce maps to the chat.
BeginLinking(u) ==
    /\ Doing(u, "mint")
    /\ \/ /\ nonces' = nonces \cup {[code |-> Id(u), chat |-> run[u].chat]}
          /\ GoesOn(u)
       \/ Throws(u) /\ UNCHANGED nonces
    /\ UNCHANGED <<link, app, docked, cards, surface, menu, flagged, binds, left, raced>>

\* The prompt is sent with the bare connector: its failure is the handler's.
SendPrompt(u) ==
    /\ Doing(u, "prompt")
    /\ GoesOn(u) \/ Throws(u)
    /\ Untouched(u)

\* classifyFlow: a command by its slash; a text by the surface flag, read at this
\* moment, when that surface owns it (a fault reads as no surface); all else goes to
\* the debounce buffer or to the pending question, and the handler is done.
ClassifyFlow(u) ==
    /\ Doing(u, "route")
    /\ \E word \in Words, seen \in {surface[run[u].user], "none"} :
         LET todo == IF word \in {"/start", "/other"} THEN CommandCalls(word)
                     ELSE IF word \in OwnedBy[seen] THEN Calls[word]
                     ELSE <<"hand over">> IN
         /\ run' = [run EXCEPT ![u] = [@ EXCEPT !.word = word, !.todo = todo]]
         /\ IF seen # surface[run[u].user] THEN Strikes ELSE UNCHANGED faults
    /\ UNCHANGED <<job, stalled, keys, admitted, expired, crashes>>
    /\ Untouched(u)

\* buffer or runAnswerExclusive (module Debounce).
HandOver(u) ==
    /\ Doing(u, "hand over")
    /\ GoesOn(u) \/ Throws(u)
    /\ Untouched(u)

-----------------------------------------------------------------------------
(* The deterministic handlers, one call at a time                          *)

\* handleCommand: getOrCreateConversation and the agenda read, and after the reply the
\* synthetic line; a database fault is thrown.
Command(u) ==
    /\ Doing(u, "read command") \/ Doing(u, "persist")
    /\ GoesOn(u) \/ Throws(u)
    /\ Untouched(u)

\* renderCalendar: a schedule that cannot be read still docks the main keyboard, under
\* an apology, but sets no flag.
ReadSchedule(u) ==
    /\ Doing(u, "read")
    /\ \/ GoesOn(u)
       \/ Swallowed(u, [run[u] EXCEPT !.todo = <<"read", "send">>])
    /\ Untouched(u)

\* openMenu reads the link status first: getStatus throws what the database throws.
ReadStatus(u) ==
    /\ Doing(u, "status")
    /\ GoesOn(u) \/ Throws(u)
    /\ Untouched(u)

\* sendTextWithKeyboard: the message docks its keyboard; a menu's is a new card. A
\* swallowed failure returns no id, though the message may have landed.
SendTextWithKeyboard(u) ==
    /\ Doing(u, "send")
    /\ LET r == run[u]
           lands == /\ docked' = [docked EXCEPT ![r.chat] = Docks(r.word)]
                    /\ cards' = IF r.word = "open_menu"
                                THEN [cards EXCEPT ![r.chat] = @ \cup {Id(u)}] ELSE cards
       IN \/ lands /\ Goes(u, [r EXCEPT !.landed = TRUE]) /\ UNCHANGED faults
          \/ lands /\ Swallowed(u, r)
          \/ UNCHANGED <<docked, cards>> /\ Swallowed(u, r)
    /\ UNCHANGED <<link, nonces, app, surface, menu, flagged, binds, left, raced>>

\* setActiveSurface: set whether or not the keyboard landed.
SetActiveSurface(u) ==
    /\ Doing(u, "set")
    /\ \/ /\ surface' = [surface EXCEPT ![run[u].user] = Docks(run[u].word)]
          /\ flagged' = [flagged EXCEPT ![run[u].user] = run[u].chat]
          /\ GoesOn(u)
       \/ Swallowed(u, run[u]) /\ UNCHANGED <<surface, flagged>>
    /\ UNCHANGED <<link, nonces, app, docked, cards, menu, binds, left, raced>>

\* take: the tracked card is read and cleared, even when the new card did not land; a
\* fault reads none, and the clearing may have happened.
TakeMenu(u) ==
    /\ Doing(u, "take")
    /\ LET v == run[u].user
           cleared == [menu EXCEPT ![v] = None] IN
       \/ menu' = cleared /\ Goes(u, [run[u] EXCEPT !.prior = menu[v]]) /\ UNCHANGED faults
       \/ menu' \in {menu, cleared} /\ Swallowed(u, run[u])
    /\ UNCHANGED <<link, nonces, app, docked, cards, surface, flagged, binds, left, raced>>

\* Mutant: the card taken is retired whether or not a new one landed.
RetiredAnyway(r) == {r.prior} \ {None}

\* Only a new card that landed retires the one taken.
Retired(r) == IF r.landed THEN {r.prior} \ {None} ELSE {}

\* It is deleted in the chat of the tap: a card of another chat is not there, and stays.
RetireMenu(u) ==
    /\ Doing(u, "retire")
    /\ LET r == run[u]
           gone == Retired(r) IN
       \/ /\ cards' = [cards EXCEPT ![r.chat] = @ \ gone]
          /\ left' = left \cup (gone \ cards[r.chat])
          /\ GoesOn(u)
       \/ gone # {} /\ Swallowed(u, r) /\ UNCHANGED <<cards, left>>
    /\ UNCHANGED <<link, nonces, app, docked, surface, menu, flagged, binds, raced>>

RecordMenu(u) ==
    /\ Doing(u, "record")
    /\ \/ /\ menu' = IF run[u].landed THEN [menu EXCEPT ![run[u].user] = Id(u)] ELSE menu
          /\ GoesOn(u)
       \/ run[u].landed /\ Swallowed(u, run[u]) /\ UNCHANGED menu
    /\ UNCHANGED <<link, nonces, app, docked, cards, surface, flagged, binds, left, raced>>

\* unlink: the row is read, then deleted by its id; the database's faults are thrown.
FindLink(u) ==
    /\ Doing(u, "find")
    /\ LET row == link[run[u].user] IN
       \/ Goes(u, [run[u] EXCEPT !.row = IF row = None THEN None ELSE row.id])
          /\ UNCHANGED faults
       \/ Throws(u)
    /\ Untouched(u)

Without(v, row) == IF link[v] # None /\ link[v].id = row
                   THEN [link EXCEPT ![v] = None] ELSE link

DeleteLink(u) ==
    /\ Doing(u, "delete")
    /\ \/ link' = Without(run[u].user, run[u].row) /\ GoesOn(u)
       \/ run[u].row # None /\ Throws(u) /\ UNCHANGED link
    /\ UNCHANGED <<nonces, app, docked, cards, surface, menu, flagged, binds, left, raced>>

ClearSurface(u) ==
    /\ Doing(u, "clear")
    /\ \/ /\ surface' = [surface EXCEPT ![run[u].user] = "none"]
          /\ flagged' = [flagged EXCEPT ![run[u].user] = run[u].chat]
          /\ GoesOn(u)
       \/ Swallowed(u, run[u]) /\ UNCHANGED <<surface, flagged>>
    /\ UNCHANGED <<link, nonces, app, docked, cards, menu, binds, left, raced>>

\* Logout alone forgets the tracked card.
ClearMenu(u) ==
    /\ Doing(u, "untrack")
    /\ \/ /\ menu' = [menu EXCEPT ![run[u].user] = None]
          /\ left' = left \cup ({menu[run[u].user]} \ {None})
          /\ GoesOn(u)
       \/ Swallowed(u, run[u]) /\ UNCHANGED <<menu, left>>
    /\ UNCHANGED <<link, nonces, app, docked, cards, surface, flagged, binds, raced>>

SendTextRemovingKeyboard(u) ==
    /\ Doing(u, "remove")
    /\ \/ docked' = [docked EXCEPT ![run[u].chat] = "none"] /\ GoesOn(u)
       \/ Swallowed(u, run[u]) /\ UNCHANGED docked
    /\ UNCHANGED <<link, nonces, app, cards, surface, menu, flagged, binds, left, raced>>

Handler(u) ==
    \/ Resolve(u) \/ BeginLinking(u) \/ SendPrompt(u) \/ ClassifyFlow(u) \/ HandOver(u)
    \/ Command(u) \/ ReadSchedule(u) \/ ReadStatus(u) \/ SendTextWithKeyboard(u)
    \/ SetActiveSurface(u) \/ TakeMenu(u) \/ RetireMenu(u) \/ RecordMenu(u)
    \/ FindLink(u) \/ DeleteLink(u) \/ ClearSurface(u) \/ ClearMenu(u)
    \/ SendTextRemovingKeyboard(u)

-----------------------------------------------------------------------------
(* The app's requests: POST and DELETE /assistant/link                     *)

Asks(v, at) == app[v].at = at /\ UNCHANGED <<run, docked, cards, surface, menu, flagged, left, raced>>

\* A database fault is the request's answer; a nonce it burned is gone.
Fails(v) ==
    /\ Strikes /\ app' = [app EXCEPT ![v] = NoRequest]
    /\ UNCHANGED <<job, stalled, keys, admitted, expired, crashes, link, binds>>

\* Mutant: GET instead of GETDEL.
RedeemNonceKept(v) ==
    /\ Asks(v, "idle")
    /\ \E n \in nonces :
         app' = [app EXCEPT ![v] = [at |-> "upsert", code |-> n.code, chat |-> n.chat]]
    /\ UNCHANGED <<ingressVars, link, nonces, binds>>

\* redeemNonce: GETDEL burns the nonce before anything is saved. (One whose TTL ran out
\* is one that nobody redeems.)
RedeemNonce(v) ==
    /\ Asks(v, "idle")
    /\ \E n \in nonces :
         /\ nonces' = nonces \ {n}
         /\ app' = [app EXCEPT ![v] = [at |-> "upsert", code |-> n.code, chat |-> n.chat]]
    /\ UNCHANGED <<ingressVars, link, binds>>

FindExisting(v) ==
    /\ Asks(v, "upsert")
    /\ \/ /\ app' = [app EXCEPT ![v] = [at |-> "save", code |-> @.code, chat |-> @.chat,
                                        existing |-> link[v]]]
          /\ UNCHANGED <<ingressVars, link, binds>>
       \/ Fails(v)
    /\ UNCHANGED nonces

\* The row to save: a new one, or the one read, pointed at the chat; TypeORM inserts the
\* latter again when it was deleted meanwhile. A second row of the user is refused.
Upsert(v) ==
    LET a == app[v]
        same == a.existing # None /\ a.existing.chat = a.chat
    IN
    /\ Asks(v, "save")
    /\ \/ /\ same
          /\ UNCHANGED <<ingressVars, link, binds>>
          /\ app' = [app EXCEPT ![v] = NoRequest]
       \/ LET id == IF a.existing = None THEN a.code ELSE a.existing.id IN
          /\ ~same /\ link[v] \in {None} \cup [id : {id}, chat : Chats]
          /\ link' = [link EXCEPT ![v] = [id |-> id, chat |-> a.chat]]
          /\ binds' = [binds EXCEPT ![a.code] = @ + 1]
          /\ app' = [app EXCEPT ![v] = NoRequest]
          /\ UNCHANGED ingressVars
       \/ Fails(v)
    /\ UNCHANGED nonces

\* unlink of the app leaves Telegram's keyboard and the stores as they are.
RequestUnlink(v) ==
    /\ Asks(v, "idle") /\ link[v] # None
    /\ app' = [app EXCEPT ![v] = [at |-> "unlink", row |-> link[v].id]]
    /\ UNCHANGED <<ingressVars, link, nonces, binds>>

Unlink(v) ==
    /\ Asks(v, "unlink")
    /\ \/ /\ link' = Without(v, app[v].row)
          /\ app' = [app EXCEPT ![v] = NoRequest]
          /\ UNCHANGED <<ingressVars, binds>>
       \/ Fails(v)
    /\ UNCHANGED nonces

Request(v) == RedeemNonce(v) \/ FindExisting(v) \/ Upsert(v) \/ RequestUnlink(v) \/ Unlink(v)

Arrives(u) ==
    /\ Pipeline(u)
    /\ run' = IF job'[u] = "handling" THEN run ELSE [run EXCEPT ![u] = NoRun]
    /\ UNCHANGED <<link, nonces, app, docked, cards, surface, menu, flagged, binds, left, raced>>

Next ==
    \/ \E u \in Updates \ {First} : Arrives(u) \/ Handler(u)
    \/ \E v \in Users : Request(v)

Spec == Init /\ [][Next]_vars

-----------------------------------------------------------------------------
(* Properties                                                              *)

Rows == [id : Ids, chat : Chats]

TypeOK ==
    /\ IngressTypeOK
    /\ \A u \in Updates :
         run[u] # NoRun =>
             /\ job[u] = "handling" /\ run[u].chat \in Chats /\ run[u].user \in Users \cup {None}
             /\ run[u].word \in Words /\ run[u].landed \in BOOLEAN
             /\ {run[u].row, run[u].prior} \subseteq Ids \cup {None}
    /\ link \in [Users -> Rows \cup {None}]
    /\ nonces \subseteq [code : Ids, chat : Chats]
    /\ \A v \in Users : app[v].at \in {"idle", "upsert", "save", "unlink"}
    /\ docked \in [Chats -> Surfaces \cup {"none"}]
    /\ cards \in [Chats -> SUBSET Ids]
    /\ surface \in [Users -> Surfaces \cup {"none"}]
    /\ menu \in [Users -> Ids \cup {None}] /\ flagged \in [Users -> Chats \cup {None}]
    /\ binds \in [Ids -> Nat] /\ left \subseteq Ids /\ raced \in BOOLEAN

Smooth == faults = 0 /\ crashes = 0 /\ ~raced

(***************************************************************************)
(* A link code binds one chat to one user at most once, whoever redeems it *)
(* and however often (linking.service.ts redeemNonce: "Burns the nonce     *)
(* (single-use, atomic via GETDEL)"): a code redeemed again after a        *)
(* disconnect does not link.                                               *)
(***************************************************************************)
CodeBindsOnce == \A m \in Ids : binds[m] <= 1

(***************************************************************************)
(* A chat that has a menu card keeps one, whatever fails and however many  *)
(* taps race: openMenu sends the new card first and deletes only a card it *)
(* took from the store after its own had landed ("leaves at most one extra *)
(* bubble, never zero", keyboard-action.service.ts:318-321).               *)
(***************************************************************************)
NeverZeroMenus == [][\A c \in Chats : cards[c] # {} => cards'[c] # {}]_vars

(***************************************************************************)
(* Between two updates, unless a call failed, a worker died or two updates *)
(* were handled at once, the pointers in Redis tell what the chats show.   *)
(* A user's flag names the keyboard docked in the chat where a handler of  *)
(* the user last set or cleared it, and says none when that chat shows     *)
(* none; what another chat shows, to which the user was linked before, it  *)
(* does not say (FlagKnowsAll). "The chat never accumulates stale cards":  *)
(* besides the tracked card it holds only cards that a logout forgot or    *)
(* that a tap in another chat displaced (active-keyboard.store.ts,         *)
(* last-menu.store.ts, keyboard-action.service.ts, which dock and flag,    *)
(* send and track in calls of their own).                                  *)
(***************************************************************************)
PointersFit ==
    Smooth /\ Active = {} =>
        /\ \A v \in Users :
             surface[v] = IF flagged[v] = None THEN "none" ELSE docked[flagged[v]]
        /\ \A c \in Chats : cards[c] \subseteq left \cup {menu[v] : v \in Users}

(***************************************************************************)
(* "null when no keyboard is the active surface", active-keyboard.store.ts *)
(* of the flag: with no flag, no chat has a keyboard docked. It is not so: *)
(* the flag is one per user. With the main keyboard docked in one chat, a  *)
(* user who links another one, opens the settings there and disconnects    *)
(* has no flag, and the first chat still shows its keyboard.               *)
(***************************************************************************)
FlagKnowsAll ==
    Smooth /\ Active = {} /\ (\A v \in Users : surface[v] = "none") =>
        \A c \in Chats : docked[c] = "none"

(***************************************************************************)
(* What the router promises (inbound-router.ts:70-75): "with no active     *)
(* keyboard (or a different keyboard docked), the same text is just a      *)
(* SimpleMessageFlow". The flag is the user's, the keyboard the chat's: a  *)
(* user linked to a second chat types a label there and it is carried out. *)
(***************************************************************************)
LabelsNeedTheirKeyboard ==
    [][\A u \in Updates :
         Doing(u, "route") /\ run'[u] # NoRun /\ run'[u].todo \in {Calls[w] : w \in Labels} =>
             run'[u].word \in OwnedBy[docked[run[u].chat]] \cup {"open_menu"}]_vars

=============================================================================
