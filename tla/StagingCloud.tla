---------------------------- MODULE StagingCloud ----------------------------
(***************************************************************************)
(* The Hetzner project of the Stage 6 staging host, as OpenTofu and the    *)
(* inventory see it: one server of the two with its firewall and its       *)
(* attachment to the network (the other is declared alike), and the SSH    *)
(* key.  A cloud c is a record: id (0 where there is nothing; for the      *)
(* attachment the network joined), fit, made (the last id given out),      *)
(* under (the server the firewall is applied to) and key.                  *)
(***************************************************************************)
EXTENDS Naturals

Address == {"firewall", "network", "server", "attachment"}

\* The resources that an address refers to.
Needs(a) == CASE a = "server" -> {"firewall"}
              [] a = "attachment" -> {"server", "network"}
              [] OTHER -> {}

\* Those a failure at an address keeps an apply from reaching.
Dependents(a) == CASE a = "firewall" -> {"server", "attachment"}
                   [] a \in {"network", "server"} -> {"attachment"}
                   [] OTHER -> {}

\* "drifted" is mended by an update in place, "worn" only by a replacement.
Fits(a) == CASE a = "firewall" -> {"right", "drifted"}
             [] a = "attachment" -> {"right", "worn"}
             [] OTHER -> {"right", "drifted", "worn"}

Empty == [id |-> [a \in Address |-> 0], fit |-> [a \in Address |-> "right"],
          made |-> 0, under |-> 0, key |-> TRUE]

Exists(c, a) == c.id[a] # 0

\* The entry of a state: the address and the ids of the resource behind it.
Entry(c, a) ==
  <<a, IF a = "attachment" THEN <<c.id["server"], c.id["network"]>> ELSE <<c.id[a]>> >>

\* The API finds what the new resource refers to, and the name is not taken.
CanBuild(c, a) == ~Exists(c, a) /\ \A b \in Needs(a) : Exists(c, b)

Built(c, a) ==
  IF a = "attachment" THEN [c EXCEPT !.id[a] = c.id["network"], !.fit[a] = "right"]
  ELSE [c EXCEPT !.made = @ + 1, !.id[a] = c.made + 1, !.fit[a] = "right",
                 !.under = IF a = "server" THEN c.made + 1 ELSE @]

Mended(c, a) == [c EXCEPT !.fit[a] = "right",
                          !.under = IF a = "server" THEN c.id[a] ELSE @]

\* A firewall that is applied is not removed; a server or a network takes the
\* attachment with it.
CanRemove(c, a) == Exists(c, a) /\ ~(a = "firewall" /\ c.under # 0)

Removed(c, a) ==
  LET gone == {a} \cup {b \in {"attachment"} : a \in {"server", "network"}} IN
  [c EXCEPT !.id = [b \in Address |-> IF b \in gone THEN 0 ELSE @[b]],
            !.fit = [b \in Address |-> IF b \in gone THEN "right" ELSE @[b]],
            !.under = IF a = "server" THEN 0 ELSE @]

\* What main.tf declares is there and in force.
Conforms(c) == /\ \A a \in Address : Exists(c, a) /\ c.fit[a] = "right"
               /\ c.under = c.id["server"]
               /\ c.key

\* What an administrator may do by hand.
ByHand(c) ==
  ({Built(c, a) : a \in {b \in Address : CanBuild(c, b)}}
    \cup {Removed(c, a) : a \in {b \in Address : CanRemove(c, b)}}
    \cup (UNION {{[c EXCEPT !.fit[a] = f] : f \in Fits(a) \ {c.fit[a]}} :
                   a \in {b \in Address : Exists(c, b)}})
    \cup {[c EXCEPT !.under = 0], [c EXCEPT !.key = ~@]}) \ {c}

IsCloud(c) ==
  /\ DOMAIN c = {"id", "fit", "made", "under", "key"}
  /\ c.made \in Nat /\ c.key \in BOOLEAN /\ c.under \in {0, c.id["server"]}
  /\ \A a \in Address : c.id[a] \in 0..c.made /\ c.fit[a] \in Fits(a)
  /\ Exists(c, "attachment") =>
       Exists(c, "server") /\ c.id["attachment"] = c.id["network"]
=============================================================================
