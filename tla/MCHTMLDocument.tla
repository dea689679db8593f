---------------------------- MODULE MCHTMLDocument ----------------------------
(* An instance of HTMLDocument for TLC.  Each pool is a different          *)
(* situation: elements, document and collection released in every order;   *)
(* titles set meanwhile; titles, bodies and frame sets; objects with       *)
(* applets; links, anchors, forms and images.                              *)
EXTENDS HTMLDocument, TLC

CONSTANTS doc, h, t1, t2, b1, b2, fs, o1, o2, ap, a1, a2, fm, im, cm, s1, s2

MCKind ==
  (doc :> "#document") @@ (h :> "HTML") @@ (t1 :> "TITLE") @@ (t2 :> "TITLE")
  @@ (b1 :> "BODY") @@ (b2 :> "BODY") @@ (fs :> "FRAMESET")
  @@ (o1 :> "OBJECT") @@ (o2 :> "OBJECT") @@ (ap :> "APPLET")
  @@ (a1 :> "A") @@ (a2 :> "AREA") @@ (fm :> "FORM") @@ (im :> "IMG") @@ (cm :> "#comment")

MCHas == [n \in Node |-> CASE n = a1 -> {"href", "name"} [] n = a2 -> {"href"} [] OTHER -> {}]

MCContents ==
  ("#document" :> {"HTML", "#comment"})
  @@ ("HTML" :> {"BODY", "FRAMESET", "OBJECT", "A", "AREA", "FORM", "IMG", "TITLE", "#comment"})
  @@ ("FRAMESET" :> {"BODY"}) @@ ("BODY" :> {"TITLE"})
  @@ ("OBJECT" :> {"OBJECT", "APPLET"}) @@ ("FORM" :> {"A", "AREA", "IMG"})

With(nodes, does) == [nodes |-> nodes, does |-> does]

MCPools ==
  {With({h, b1, b2}, {"release", "collect", "body"}),
   With({h, b1}, {"release", "title", "collect"}),
   With({h, b1, b2, fs}, {}),
   With({h, t1, t2, b1}, {}),
   With({h, o1, o2, ap, cm}, {}),
   With({h, fm, a1, a2, im}, {})}
=============================================================================
