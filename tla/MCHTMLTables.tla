---------------------------- MODULE MCHTMLTables ----------------------------
(* An instance of HTMLTables for TLC.  Each pool is a different situation: *)
(* rows in every kind of section; parts replaced; cells; a table inside    *)
(* another.  The table is followed by another element or stands alone.     *)
EXTENDS HTMLTables, TLC

CONSTANTS page, note, table, cap1, cap2, hd, body1, body2, foot, inner,
          r1, r2, r3, td1, td2, th1

MCKind ==
  (page :> "BODY") @@ (note :> "P") @@ (table :> "TABLE") @@ (inner :> "TABLE")
  @@ (cap1 :> "CAPTION") @@ (cap2 :> "CAPTION") @@ (hd :> "THEAD")
  @@ (body1 :> "TBODY") @@ (body2 :> "TBODY") @@ (foot :> "TFOOT")
  @@ (r1 :> "TR") @@ (r2 :> "TR") @@ (r3 :> "TR")
  @@ (td1 :> "TD") @@ (td2 :> "TD") @@ (th1 :> "TH")

MCContents ==
  [TABLE |-> {"CAPTION", "THEAD", "TBODY", "TFOOT"}, THEAD |-> {"TR"},
   TBODY |-> {"TR"}, TFOOT |-> {"TR"}, TR |-> {"TD", "TH"}, TD |-> {"TABLE"}]

MCPools ==
  {{table, hd, body1, foot, r1, r2, r3},
   {table, hd, body1, body2, r1, r2},
   {table, cap1, cap2, hd, foot, r1},
   {table, body1, r1, td1, td2, th1},
   {table, hd, r1, td1, inner, body1, r2}}

MCOutside ==
  [p \in MCPools |-> [n \in Node |->
     IF n # page THEN <<>> ELSE IF th1 \in p THEN <<table>> ELSE <<table, note>>]]
=============================================================================
