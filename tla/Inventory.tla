----------------------------- MODULE Inventory ------------------------------
(***************************************************************************)
(* The inventory of the clouds: the connections, their accounts, the rows  *)
(* of what was discovered and the placeholders of what was provisioned     *)
(* (connections.service.ts, recordProvisioned of network.service.ts).      *)
(*                                                                         *)
(* A synchronisation asks the cloud, makes sure there is an account, and   *)
(* writes and deletes rows one statement at a time.  The timer runs one    *)
(* after another and then reconciles; the button runs beside it; a removal *)
(* takes three statements.  Each keeps what it read, whatever happens to   *)
(* it.  A row's account is a foreign key, set to null when the account     *)
(* goes, and an account's connection is one as well.                       *)
(***************************************************************************)
EXTENDS Naturals, FiniteSets

CONSTANTS
    Links,            \* connections, of one provider
    Assets,
    ShownTo,          \* [Assets -> the connections whose cloud account shows it]
    Orphan,           \* a row without an account
    MaxCloudEvents    \* bound: changes of the clouds, calls of operators and failures

ASSUME InventoryAssumption ==
    /\ ShownTo \in [Assets -> SUBSET Links] /\ Assets # {}
    /\ Orphan \notin Links \cup {"none"} /\ "none" \notin Links
    /\ MaxCloudEvents \in Nat

VARIABLES
    cloud,     \* what exists in the clouds
    link,      \* [Links -> the connection: its status, and whether its credentials work]
    account,   \* [Links -> its cloud account: none, linked, or left by its connection]
    stock,     \* [Assets -> the row: none, or whose account it is under]
    held,      \* [Assets -> the placeholder of what was provisioned: its age]
    sync,      \* [Callers -> the sync() or test() under way]
    pass,      \* autoSyncAll(): what is left of it
    removal,   \* remove(): what is left of it
    clashed,   \* observation: connections removed while they were synchronised
    cloudEvents

invVars == <<cloud, link, account, stock, held, sync, pass, removal, clashed, cloudEvents>>

Callers == {"timer", "button"}
Nowhere == "none"
NoSync == [pc |-> "idle", of |-> Orphan, works |-> FALSE, found |-> {}, todo |-> {}]
NoPass == [pc |-> "idle", left |-> {}, known |-> {}]
NoRemoval == [pc |-> "idle", of |-> Orphan]

Present(l) == link[l].status \notin {"new", "gone"}
Shown(l) == {x \in cloud : l \in ShownTo[x]}
CloudEvent == cloudEvents < MaxCloudEvents /\ cloudEvents' = cloudEvents + 1

InvInit ==
    /\ cloud = {CHOOSE x \in Assets : TRUE}
    /\ link \in [Links -> {[status |-> "new", works |-> FALSE], [status |-> "pending", works |-> TRUE]}]
    /\ account = [l \in Links |-> "none"]
    /\ stock = [x \in Assets |-> Nowhere] /\ held = [x \in Assets |-> "none"]
    /\ sync = [c \in Callers |-> NoSync]
    /\ pass = NoPass /\ removal = NoRemoval /\ clashed = {} /\ cloudEvents = 0

Status(l, s) == link' = [link EXCEPT ![l].status = s]
Ends(c) == sync' = [sync EXCEPT ![c] = NoSync]

(***************************************************************************)
(* sync() and test().                                                      *)
(***************************************************************************)
\* getConn(): the connection and its credentials are read, once.
Begins(c, l, pc) ==
    /\ sync[c] = NoSync /\ Present(l)
    /\ sync' = [sync EXCEPT ![c] = [pc |-> pc, of |-> l, works |-> link[l].works, found |-> {}, todo |-> {}]]
    /\ clashed' = IF removal.of = l THEN clashed \cup {l} ELSE clashed

\* connector.test(): the verdict is written, unless the connection is gone.
Test(c) ==
    LET l == sync[c].of IN
    /\ sync[c].pc = "test"
    /\ IF Present(l) THEN Status(l, IF sync[c].works THEN "connected" ELSE "error") ELSE UNCHANGED link
    /\ Ends(c)
    /\ UNCHANGED <<cloud, account, stock, held, pass, removal, clashed, cloudEvents>>

\* discover() answers in full; or in part, or not at all, which is an event.
Discover(c) ==
    LET l == sync[c].of IN
    /\ sync[c].pc = "discover"
    /\ \/ /\ sync[c].works
          /\ \E found \in SUBSET Shown(l) :
               /\ IF found = Shown(l) THEN UNCHANGED cloudEvents ELSE CloudEvent
               /\ sync' = [sync EXCEPT ![c] = [pc |-> "account", of |-> l, works |-> TRUE,
                                               found |-> found, todo |-> found]]
          /\ UNCHANGED link
       \/ /\ IF sync[c].works THEN CloudEvent ELSE UNCHANGED cloudEvents
          /\ IF Present(l) THEN Status(l, "error") ELSE UNCHANGED link
          /\ Ends(c)
    /\ UNCHANGED <<cloud, account, stock, held, pass, removal, clashed>>

\* The account is found by its connection, or created; without one it cannot be.
EnsureAccount(c) ==
    LET l == sync[c].of IN
    /\ sync[c].pc = "account"
    /\ IF Present(l)
       THEN account' = [account EXCEPT ![l] = "linked"] /\ sync' = [sync EXCEPT ![c].pc = "rows"]
       ELSE UNCHANGED account /\ Ends(c)
    /\ UNCHANGED <<cloud, link, stock, held, pass, removal, clashed, cloudEvents>>

\* One row; it cannot be under an account that is gone.
WriteRow(c, x) ==
    /\ sync[c].pc = "rows" /\ x \in sync[c].todo
    /\ IF account[sync[c].of] # "none"
       THEN stock' = [stock EXCEPT ![x] = sync[c].of] /\ sync' = [sync EXCEPT ![c].todo = @ \ {x}]
       ELSE UNCHANGED stock /\ Ends(c)
    /\ UNCHANGED <<cloud, link, account, held, pass, removal, clashed, cloudEvents>>

\* Mutant: nothing was discovered, so nothing is pruned.
PruneUnlessEmpty(c) ==
    {x \in Assets : sync[c].found # {} /\ stock[x] = sync[c].of /\ x \notin sync[c].found}

\* Rows of this account that were not discovered.
Vanished(c) == {x \in Assets : stock[x] = sync[c].of /\ x \notin sync[c].found}

PruneRows(c) ==
    /\ sync[c].pc = "rows" /\ sync[c].todo = {}
    /\ stock' = [x \in Assets |-> IF x \in Vanished(c) THEN Nowhere ELSE stock[x]]
    /\ sync' = [sync EXCEPT ![c].pc = "held"]
    /\ UNCHANGED <<cloud, link, account, held, pass, removal, clashed, cloudEvents>>

\* A placeholder whose name was discovered is dropped.
DropHeld(c) ==
    /\ sync[c].pc = "held"
    /\ held' = [x \in Assets |-> IF x \in sync[c].found THEN "none" ELSE held[x]]
    /\ sync' = [sync EXCEPT ![c].pc = "done"]
    /\ UNCHANGED <<cloud, link, account, stock, pass, removal, clashed, cloudEvents>>

\* The account's figures, and then the connection's status; either may be gone.
Concludes(c) ==
    LET l == sync[c].of IN
    /\ sync[c].pc = "done"
    /\ IF Present(l) /\ account[l] # "none" THEN Status(l, "connected") ELSE UNCHANGED link
    /\ Ends(c)
    /\ UNCHANGED <<cloud, account, stock, held, pass, removal, clashed, cloudEvents>>

SyncStep(c) ==
    \/ Test(c) \/ Discover(c) \/ EnsureAccount(c) \/ PruneRows(c) \/ DropHeld(c) \/ Concludes(c)
    \/ \E x \in Assets : WriteRow(c, x)

(***************************************************************************)
(* autoSyncAll() and reconcileStale().                                     *)
(***************************************************************************)
PassBegins ==
    /\ pass.pc = "idle"
    /\ pass' = [pc |-> "sync", left |-> {l \in Links : Present(l)}, known |-> {}]
    /\ UNCHANGED <<cloud, link, account, stock, held, sync, removal, clashed, cloudEvents>>

\* One connection after another; one that is gone meanwhile is skipped.
PassSyncs(l) ==
    /\ pass.pc = "sync" /\ l \in pass.left /\ sync["timer"] = NoSync
    /\ pass' = [pass EXCEPT !.left = @ \ {l}]
    /\ \/ Begins("timer", l, "discover")
       \/ ~Present(l) /\ UNCHANGED <<sync, clashed>>
    /\ UNCHANGED <<cloud, link, account, stock, held, removal, cloudEvents>>

\* Placeholders that discovery never confirmed.
DropGhosts ==
    /\ pass.pc = "sync" /\ pass.left = {} /\ sync["timer"] = NoSync
    /\ held' = [x \in Assets |-> IF held[x] = "old" THEN "none" ELSE held[x]]
    /\ pass' = [pass EXCEPT !.pc = "accounts"]
    /\ UNCHANGED <<cloud, link, account, stock, sync, removal, clashed, cloudEvents>>

ReadAccounts ==
    /\ pass.pc = "accounts"
    /\ LET known == {l \in Links : account[l] # "none"} IN
       pass' = IF known = {} THEN NoPass ELSE [pass EXCEPT !.pc = "orphans", !.known = known]
    /\ UNCHANGED <<cloud, link, account, stock, held, sync, removal, clashed, cloudEvents>>

\* Rows under an account that was not among them; null is never "not in".
DropOrphans ==
    /\ pass.pc = "orphans"
    /\ stock' = [x \in Assets |-> IF stock[x] \in Links \ pass.known THEN Nowhere ELSE stock[x]]
    /\ pass' = NoPass
    /\ UNCHANGED <<cloud, link, account, held, sync, removal, clashed, cloudEvents>>

Pass == PassBegins \/ (\E l \in Links : PassSyncs(l)) \/ DropGhosts \/ ReadAccounts \/ DropOrphans

(***************************************************************************)
(* remove(): the account is looked for; its rows, it and the connection go.*)
(***************************************************************************)
RemoveBegins(l) ==
    /\ removal = NoRemoval /\ Present(l) /\ CloudEvent
    /\ removal' = [pc |-> IF account[l] = "none" THEN "link" ELSE "rows", of |-> l]
    /\ clashed' = IF \E c \in Callers : sync[c].of = l THEN clashed \cup {l} ELSE clashed
    /\ UNCHANGED <<cloud, link, account, stock, held, sync, pass>>

\* Mutant: the account is deleted, and its rows are left to the reconciliation.
RowsLeft == UNCHANGED stock

RowsDeleted == stock' = [x \in Assets |-> IF stock[x] = removal.of THEN Nowhere ELSE stock[x]]

RemoveRows ==
    /\ removal.pc = "rows"
    /\ RowsDeleted
    /\ removal' = [removal EXCEPT !.pc = "account"]
    /\ UNCHANGED <<cloud, link, account, held, sync, pass, clashed, cloudEvents>>

\* Rows written since lose their account, and keep their place.
RemoveAccount ==
    /\ removal.pc = "account"
    /\ account' = [account EXCEPT ![removal.of] = "none"]
    /\ stock' = [x \in Assets |-> IF stock[x] = removal.of THEN Orphan ELSE stock[x]]
    /\ removal' = [removal EXCEPT !.pc = "link"]
    /\ UNCHANGED <<cloud, link, held, sync, pass, clashed, cloudEvents>>

\* An account created since loses its connection.
RemoveLink ==
    LET l == removal.of IN
    /\ removal.pc = "link"
    /\ Status(l, "gone")
    /\ account' = [account EXCEPT ![l] = IF @ = "none" THEN "none" ELSE "left"]
    /\ removal' = NoRemoval
    /\ UNCHANGED <<cloud, stock, held, sync, pass, clashed, cloudEvents>>

(***************************************************************************)
(* Operators, the clouds, time and the process.                            *)
(***************************************************************************)
\* create(), and update() with credentials: nothing is known of them yet.
Enter(l, works) ==
    /\ CloudEvent
    /\ link' = [link EXCEPT ![l] = [status |-> "pending", works |-> works]]
    /\ UNCHANGED <<cloud, account, stock, held, sync, pass, removal, clashed>>

Create(l, works) == link[l].status = "new" /\ Enter(l, works)
Update(l, works) == Present(l) /\ Enter(l, works)

\* The buttons "Sync" and "Test".
Press(l, pc) ==
    /\ CloudEvent /\ Begins("button", l, pc)
    /\ UNCHANGED <<cloud, link, account, stock, held, pass, removal>>

\* Something appears or disappears.
CloudChanges(x) ==
    /\ CloudEvent
    /\ cloud' \in {cloud \cup {x}, cloud \ {x}}
    /\ UNCHANGED <<link, account, stock, held, sync, pass, removal, clashed>>

\* recordProvisioned(): a placeholder, whether or not the thing will ever be there.
Provisioned(x) ==
    /\ CloudEvent
    /\ held' = [held EXCEPT ![x] = "fresh"]
    /\ UNCHANGED <<cloud, link, account, stock, sync, pass, removal, clashed>>

\* Fifteen minutes.
Age(x) ==
    /\ held[x] = "fresh"
    /\ held' = [held EXCEPT ![x] = "old"]
    /\ UNCHANGED <<cloud, link, account, stock, sync, pass, removal, clashed, cloudEvents>>

\* What was under way is forgotten; what was written stays.
InvRestart ==
    /\ CloudEvent
    /\ sync' = [c \in Callers |-> NoSync] /\ pass' = NoPass /\ removal' = NoRemoval
    /\ UNCHANGED <<cloud, link, account, stock, held, clashed>>

InvNext ==
    \/ \E c \in Callers : SyncStep(c)
    \/ Pass \/ RemoveRows \/ RemoveAccount \/ RemoveLink \/ InvRestart
    \/ \E l \in Links : RemoveBegins(l)
    \/ \E l \in Links, works \in BOOLEAN : Create(l, works) \/ Update(l, works)
    \/ \E l \in Links, pc \in {"discover", "test"} : Press(l, pc)
    \/ \E x \in Assets : CloudChanges(x) \/ Provisioned(x) \/ Age(x)

\* The timer goes on, every await comes back, time passes.
InvDuty(k) ==
    \/ k = 1 /\ SyncStep("timer")
    \/ k = 2 /\ SyncStep("button")
    \/ k = 3 /\ Pass
    \/ k = 4 /\ (RemoveRows \/ RemoveAccount \/ RemoveLink)
    \/ k = 5 /\ \E x \in Assets : Age(x)
InvSpec == InvInit /\ [][InvNext]_invVars /\ \A k \in 1 .. 5 : WF_invVars(InvDuty(k))

(***************************************************************************)
(* Properties.                                                             *)
(***************************************************************************)
(* The variables keep their types. *)
InvTypes ==
    /\ cloud \subseteq Assets
    /\ link \in [Links -> [status : {"new", "pending", "connected", "error", "gone"}, works : BOOLEAN]]
    /\ account \in [Links -> {"none", "linked", "left"}]
    /\ stock \in [Assets -> Links \cup {Nowhere, Orphan}] /\ held \in [Assets -> {"none", "fresh", "old"}]
    /\ sync \in [Callers -> [pc : {"idle", "test", "discover", "account", "rows", "held", "done"},
                             of : Links \cup {Orphan}, works : BOOLEAN,
                             found : SUBSET Assets, todo : SUBSET Assets]]
    /\ pass \in [pc : {"idle", "sync", "accounts", "orphans"}, left : SUBSET Links, known : SUBSET Links]
    /\ removal \in [pc : {"idle", "rows", "account", "link"}, of : Links \cup {Orphan}]
    /\ clashed \subseteq Links /\ cloudEvents \in 0 .. MaxCloudEvents

(* A connection that was removed leaves no account and no row, and no row is *)
(* left without an account, unless it was removed while it was synchronised: *)
(* then either may stay, and the reconciliation, which compares with null,   *)
(* never takes them.                                                         *)
RemovalIsComplete ==
    /\ \A l \in Links \ clashed :
         link[l].status = "gone" => account[l] = "none" /\ \A x \in Assets : stock[x] # l
    /\ clashed = {} => \A x \in Assets : stock[x] # Orphan

InventoryHonest == InvTypes /\ RemovalIsComplete

(* Again and again, whatever overlapped, failed or answered in part: each    *)
(* connection says whether its credentials work, and the rows are what the   *)
(* clouds of those that do hold, each under a connection that is there; no   *)
(* placeholder remains.                                                      *)
Working == {l \in Links : Present(l) /\ link[l].works}
Accurate ==
    /\ \A l \in Links : Present(l) => link[l].status = IF link[l].works THEN "connected" ELSE "error"
    /\ \A x \in Assets :
         /\ x \in cloud /\ ShownTo[x] \cap Working # {} => stock[x] # Nowhere
         /\ stock[x] \in Links => Present(stock[x]) /\ (stock[x] \in Working => x \in cloud)
         /\ held[x] = "none"
InventorySettled == clashed # {} \/ Accurate
InventorySettles == []<>InventorySettled

=============================================================================
