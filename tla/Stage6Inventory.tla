-------------------------- MODULE Stage6Inventory --------------------------
(***************************************************************************)
(* collect_stage6_hetzner_inventory.py: the collections of the cloud, read *)
(* by one GET after the other while whoever else changes the cloud, and    *)
(* compared with the authority of Git when all have been read.             *)
(***************************************************************************)
EXTENDS StagingCloud, Sequences

VARIABLES
  cloud,
  seen,     \* what each GET so far has returned
  verdict,  \* "none", "collecting", "PASS" or the InventoryError
  moved     \* ghost: who has changed the cloud since the collection began

COLLECTIONS == <<"locations", "servers", "networks", "ssh_keys", "firewalls">>

\* get_collection: what the objects of one collection say of themselves.
get_collection(collection) ==
  CASE collection = "locations" -> <<>>
    [] collection = "servers" ->
         [id |-> cloud.id["server"], fit |-> cloud.fit["server"],
          network |-> cloud.id["attachment"], ip |-> cloud.fit["attachment"]]
    [] collection = "networks" ->
         [id |-> cloud.id["network"], fit |-> cloud.fit["network"]]
    [] collection = "ssh_keys" -> [approved |-> cloud.key]
    [] collection = "firewalls" ->
         [id |-> cloud.id["firewall"], rules |-> cloud.fit["firewall"],
          applied_to |-> cloud.under]

raw(collection) == seen[CHOOSE i \in 1..Len(COLLECTIONS) : COLLECTIONS[i] = collection]

\* exactly_one: of its name and labels (of which the project admits one), with
\* the properties compared after it.
exactly_one(collection) == raw(collection).id # 0 /\ raw(collection).fit = "right"

server_private_ip ==
  raw("servers").network = raw("networks").id /\ raw("servers").ip = "right"

\* Mutant: the firewall exists, applied or not.
FirewallListed == raw("firewalls").id # 0

\* Applied to the server by its id, as main.tf does it.  The code also takes a
\* label selector that the server's labels meet, which nothing here writes.
firewall_applies_to_server == raw("firewalls").applied_to = raw("servers").id

require_exact_rule_set == raw("firewalls").rules = "right"

resolve_authority ==
  /\ exactly_one("servers") /\ exactly_one("networks") /\ server_private_ip
  /\ raw("ssh_keys").approved
  /\ raw("firewalls").id # 0 /\ firewall_applies_to_server /\ require_exact_rule_set

Init == seen = <<>> /\ verdict = "none" /\ moved = "no"

\* load_authority, and the first GET still to come.
Start == /\ verdict = "none"
         /\ verdict' = "collecting" /\ moved' = "no"
         /\ UNCHANGED <<cloud, seen>>

Get == /\ verdict = "collecting" /\ Len(seen) < Len(COLLECTIONS)
       /\ seen' = Append(seen, get_collection(COLLECTIONS[Len(seen) + 1]))
       /\ UNCHANGED <<cloud, verdict, moved>>

\* The two files are written into a new directory, and PASS is printed last; an
\* InventoryError leaves nothing.
Resolve == /\ verdict = "collecting" /\ Len(seen) = Len(COLLECTIONS)
           /\ verdict' = IF resolve_authority THEN "PASS" ELSE "INVENTORY_ERROR"
           /\ seen' = IF resolve_authority THEN seen ELSE <<>>
           /\ UNCHANGED <<cloud, moved>>

\* A GET fails, the directory exists, or the job of an earlier run is over.
Over == /\ verdict # "none"
        /\ verdict' = "none" /\ seen' = <<>> /\ moved' = "no"
        /\ UNCHANGED cloud

Next == Start \/ Get \/ Resolve \/ Over

TypeOK == /\ verdict \in {"none", "collecting", "PASS", "INVENTORY_ERROR"}
          /\ moved \in {"no", "applied", "by hand"}
          /\ Len(seen) <= Len(COLLECTIONS)
          /\ verdict \in {"none", "INVENTORY_ERROR"} => seen = <<>>
          /\ verdict = "none" => moved = "no"
          /\ verdict = "PASS" => Len(seen) = Len(COLLECTIONS)

\* What a verdict says of the cloud although its collections are of different
\* moments.  PASS: while nobody changes anything by hand the cloud conforms and
\* the server it names is there, be it that plans were applied between the GETs
\* or after them; the error: where nothing moved at all, it does not conform.
InventoryIsTrue ==
  /\ verdict = "PASS" /\ moved # "by hand" =>
       Conforms(cloud) /\ raw("servers").id = cloud.id["server"]
  /\ verdict = "INVENTORY_ERROR" /\ moved = "no" => ~Conforms(cloud)
=============================================================================
