-------------------------- MODULE MCRestaurantServer --------------------------
(* Instances of RestaurantServer with one server process. *)
EXTENDS RestaurantServer

CONSTANTS s1, h1, h2, l1, l2, p1, p2

OneServer == [t \in Threads |-> s1]

Configured(ip, port, login) == [ip |-> ip, port |-> port, login |-> login]

(* Started with -Dcassandra_ip, or without arguments. *)
StartedAtH1 == [s \in Servers |-> Configured(h1, p1, l1)]
StartedBare == [s \in Servers |-> Configured(Unset, Unset, l1)]

NoFile == [s \in Servers |-> [kind |-> "absent", ip |-> h1, port |-> p1]]

ToH1 == {Configured(h1, p1, l1)}
ToEitherNode == {Configured(h1, p1, l1), Configured(h2, p1, l2)}
ToEitherOrNowhere == ToEitherNode \cup {Configured(BadIp, p2, l1)}

(* Each node has a login of its own. *)
OwnLogins == {<<h1, l1>>, <<h2, l2>>} \cap (Hosts \X Logins)

(* The first node has both logins. *)
SharedLogin == OwnLogins \cup {<<h1, l2>>}
==============================================================================
