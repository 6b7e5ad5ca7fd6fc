--------------------------- MODULE MCWorkReceiver ---------------------------
(***************************************************************************)
(* Two helper threads and one master composite N with a co-factor C.  The  *)
(* returns are chosen so that any two of them share a row: "curves",       *)
(* "twin" and "again" add to one work row and one user, "prime" and "pair" *)
(* report factors of N, "rest" reports one of C (and shares a user).       *)
(***************************************************************************)
EXTENDS WorkReceiver

MCComposite == {"N", "C"}
MCWorkRow   == {"ecm1", "ecm2", "pm1"}
MCEcmRow    == {"ecm1", "ecm2"}
MCMasterOf  == [c \in MCComposite |-> "N"]
MCRowMaster == [k \in MCWorkRow |-> "N"]

OfComposite(rs) == [r \in rs |-> IF r = "rest" THEN "C" ELSE "N"]
OfUser(rs)      == [r \in rs |-> IF r \in {"prime", "pair"} THEN "u2" ELSE "u1"]
OfRow(rs)       == [r \in rs |-> CASE r \in {"curves", "twin", "again"} -> "ecm1"
                                   [] r = "prime" -> "pm1"
                                   [] OTHER       -> "ecm2"]
Found(rs)       == [r \in rs |-> CASE r \in {"prime", "rest"} -> <<"p">>
                                   [] r = "pair"              -> <<"q", "c">>
                                   [] OTHER                   -> <<>>]

(* One of each kind, without a composite factor. *)
AllReturn    == {"curves", "prime", "rest", "twin", "number", "untouched", "unknown"}
AllComposite == OfComposite(AllReturn)
AllUser      == OfUser(AllReturn)
AllRow       == OfRow(AllReturn)
AllDetails   == Found(AllReturn)

(* Three that add to one work row, one with two factors, one given back. *)
InnoReturn    == {"again", "curves", "pair", "twin", "untouched"}
InnoComposite == OfComposite(InnoReturn)
InnoUser      == OfUser(InnoReturn)
InnoRow       == OfRow(InnoReturn)
InnoDetails   == Found(InnoReturn)

(* Two with a factor and two without. *)
WedgeReturn    == {"curves", "pair", "prime", "twin"}
WedgeComposite == OfComposite(WedgeReturn)
WedgeUser      == OfUser(WedgeReturn)
WedgeRow       == OfRow(WedgeReturn)
WedgeDetails   == Found(WedgeReturn)
=============================================================================
