------------------------- MODULE MCServerLifecycle -------------------------
(* Two connections, of administrators who add composites or of other peers, *)
(* at a master for two clients on Windows or a slave for one on UNIX.        *)
EXTENDS ServerLifecycle, TLC

CONSTANTS a, b

AnyPeer    == a :> {"composites"} @@ b :> {"composites", "curves", "status", "browser", "stranger", "client"}
AnyContent == "list" :> <<"batch">> @@ "other" :> <<"more">> @@ "batch" :> <<"new">> @@ "more" :> <<"odd", "new">>
AnyName    == "odd" :> "N" @@ "new" :> "M"
AnyValue   == "odd" :> "p" @@ "new" :> "m"
AnyConfig  == {[slave |-> FALSE, windows |-> TRUE, maxClients |-> 2],
               [slave |-> TRUE, windows |-> FALSE, maxClients |-> 1]}
=============================================================================
