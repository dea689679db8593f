----------------------------- MODULE HTMLClasses -----------------------------
(***************************************************************************)
(* The classes of HTML elements: src/html/html_element.c and one file for  *)
(* every specialised element, each of which creates, initialises, copies   *)
(* and destroys its elements the same way, by way of html_element.c, and   *)
(* differs in the properties by which it reflects attributes:              *)
(*   strings    get and set the attribute itself;                          *)
(*   readable, writable   the same, where there is only a getter or only   *)
(*              a setter;                                                  *)
(*   signed     a 32-bit integer kept as text in the attribute;            *)
(*   unsigned   the same without a sign;                                   *)
(*   switches   a bool, true when the attribute is there;                  *)
(* and in the value a getter makes up when the attribute is not set.  The  *)
(* numbers and switches are functions from the property to the attribute's *)
(* name; strings and the others go by way of the memoised names.           *)
(* Behaviour beyond properties is modelled in HTMLTables, HTMLForms,       *)
(* HTMLDocument and LiveCollections.                                       *)
(***************************************************************************)
EXTENDS TLC

None == [p \in {} |-> ""]

(* The properties that are not named as the attribute they reflect.        *)
Renamed ==
  [http_equiv |-> "http-equiv", a_link |-> "alink", v_link |-> "vlink",
   bg_color |-> "bgcolor", accept_charset |-> "accept-charset",
   access_key |-> "accesskey", html_for |-> "for", date_time |-> "datetime",
   long_desc |-> "longdesc", code_base |-> "codebase",
   code_type |-> "codetype", value_type |-> "valuetype", v_align |-> "valign",
   ch |-> "char", ch_off |-> "charoff", cell_padding |-> "cellpadding",
   cell_spacing |-> "cellspacing", frame_border |-> "frameborder",
   margin_height |-> "marginheight", margin_width |-> "marginwidth",
   use_map |-> "usemap", class_name |-> "class"]

(* Mutant: the names of two attributes are swapped.                        *)
Memo_Confused(p) == IF p \in {"href", "rel"} THEN "rel" ELSE p

(* The attribute that a string property reflects.                          *)
Memo(p) == IF p \in DOMAIN Renamed THEN Renamed[p] ELSE p

(* HTMLElement: an element without a class of its own.                     *)
Plain ==
  [strings  |-> {"id", "title", "lang", "dir", "class_name"},
   readable |-> {}, writable |-> {},
   signed   |-> None, unsigned |-> None, switches |-> None,
   default  |-> None]

With(properties) == [Plain EXCEPT !.strings = @ \cup properties]

-----------------------------------------------------------------------------
(* The classes, a file each.                                               *)

Anchor == [With({"access_key", "charset", "coords", "href", "hreflang", "name",
                 "rel", "rev", "shape", "target", "type"})
           EXCEPT !.signed = [tab_index |-> "tabindex"]]

Applet == [With({"align", "alt", "archive", "code", "code_base", "height",
                 "name", "object", "width"})
           EXCEPT !.signed = [hspace |-> "hspace", vspace |-> "vspace"]]

Area == [With({"access_key", "alt", "coords", "href", "shape", "target"})
         EXCEPT !.signed = [tab_index |-> "tabindex"],
                !.switches = [no_href |-> "nohref"]]

Base == With({"href", "target"})

BaseFont == [With({"color", "face"}) EXCEPT !.signed = [size |-> "size"]]

Body == With({"a_link", "background", "bg_color", "link", "text", "v_link"})

BR == With({"clear"})

Button == [With({"access_key", "name", "value"})
           EXCEPT !.readable = {"type"},
                  !.signed = [tab_index |-> "tabindex"],
                  !.switches = [disabled |-> "disabled"]]

Canvas == [Plain EXCEPT !.unsigned = [width |-> "width", height |-> "height"],
                        !.default = [width |-> 300, height |-> 150]]

Directory == [Plain EXCEPT !.switches = [compact |-> "compact"]]

Div == With({"align"})

DList == [Plain EXCEPT !.switches = [compact |-> "compact"]]

FieldSet == Plain

Font == With({"color", "face", "size"})

Form == With({"accept_charset", "action", "enctype", "method", "target"})

Frame == [With({"long_desc", "name", "src", "frame_border", "margin_width",
                "margin_height", "scrolling"})
          EXCEPT !.switches = [no_resize |-> "noresize"]]

FrameSet == With({"rows", "cols"})

Head == With({"profile"})

Heading == With({"align"})

HR == [With({"size", "align", "width"})
       EXCEPT !.switches = [no_shade |-> "noshade"]]

HTML == With({"version"})

IFrame == With({"long_desc", "align", "name", "src", "margin_width",
                "margin_height", "scrolling", "frame_border", "width", "height"})

Image == [With({"name", "align", "alt", "border", "long_desc", "src", "use_map"})
          EXCEPT !.unsigned = [height |-> "height", hspace |-> "hspace",
                               vspace |-> "vspace", width |-> "width"],
                 !.switches = [is_map |-> "ismap"]]

(* checked, and the value a form is reset to: HTMLForms.                   *)
Input == [With({"accept", "access_key", "align", "alt", "name", "src",
                "use_map", "value"})
          EXCEPT !.readable = {"type"},
                 !.signed = [tab_index |-> "tabindex", max_length |-> "maxlength"],
                 !.unsigned = [size |-> "size"],
                 !.switches = [disabled |-> "disabled", read_only |-> "readonly"]]

IsIndex == With({"prompt"})

Label == With({"access_key", "html_for"})

Legend == [With({"access_key"}) EXCEPT !.readable = {"align"},
                                       !.writable = {"align"},
                                       !.default = [align |-> "none"]]

LI == [With({"type"}) EXCEPT !.signed = [value |-> "value"]]

Link == [With({"charset", "href", "hreflang", "media", "rel", "rev", "target",
               "type"})
         EXCEPT !.switches = [disabled |-> "disabled"]]

Map == With({"name"})

Menu == [Plain EXCEPT !.switches = [compact |-> "compact"]]

Meta == With({"content", "http_equiv", "name", "scheme"})

Mod == With({"cite", "date_time"})

Object == [With({"code", "align", "archive", "border", "code_base", "code_type",
                 "data", "height", "name", "standby", "type", "use_map", "width"})
           EXCEPT !.signed = [hspace |-> "hspace", vspace |-> "vspace",
                              tab_index |-> "tabindex"],
                  !.switches = [declare |-> "declare"]]

OList == [With({"type"}) EXCEPT !.signed = [start |-> "start"],
                                !.switches = [compact |-> "compact"]]

OptGroup == [With({"label"}) EXCEPT !.switches = [disabled |-> "disabled"]]

(* value and the default selection: HTMLForms.                             *)
Option == [With({"label"})
           EXCEPT !.switches = [disabled |-> "disabled", selected |-> "selected"]]

Paragraph == With({"align"})

Param == With({"name", "type", "value", "value_type"})

Pre == [Plain EXCEPT !.signed = [width |-> "width"]]

Quote == With({"cite"})

Script == [With({"html_for", "event", "charset", "src", "type"})
           EXCEPT !.switches = [defer |-> "defer", async |-> "async"]]

(* value, length and the selected index: HTMLForms.                        *)
Select == [With({"name"})
           EXCEPT !.signed = [size |-> "size", tab_index |-> "tabindex"],
                  !.switches = [disabled |-> "disabled", multiple |-> "multiple"]]

Style == [With({"type", "media"}) EXCEPT !.switches = [disabled |-> "disabled"]]

(* The rows and parts of tables: HTMLTables.                               *)
Table == With({"align", "bg_color", "border", "cell_padding", "cell_spacing",
               "frame", "rules", "summary", "width"})

TableCaption == With({"align"})

TableCell == [With({"abbr", "align", "axis", "bg_color", "ch", "ch_off",
                    "headers", "height", "scope", "v_align", "width"})
              EXCEPT !.unsigned = [col_span |-> "colspan", row_span |-> "rowspan"],
                     !.switches = [no_wrap |-> "nowrap"]]

TableCol == [With({"align", "ch", "ch_off", "v_align", "width"})
             EXCEPT !.signed = [span |-> "span"]]

TableRow == With({"align", "bg_color", "ch", "ch_off", "v_align"})

TableSection == With({"align", "ch", "ch_off", "v_align"})

(* value and the default value: HTMLForms.                                 *)
TextArea == [With({"access_key", "name"})
             EXCEPT !.signed = [tab_index |-> "tabindex", cols |-> "cols",
                                rows |-> "rows"],
                    !.switches = [disabled |-> "disabled",
                                  read_only |-> "readonly"]]

Title == Plain

UList == [With({"type"}) EXCEPT !.switches = [compact |-> "compact"]]

-----------------------------------------------------------------------------
(* The factory.                                                            *)

(* The class of the element created for a tag name in upper case.          *)
Specialised ==
  [HTML |-> HTML, HEAD |-> Head, META |-> Meta, BASE |-> Base, TITLE |-> Title,
   BODY |-> Body, DIV |-> Div, FORM |-> Form, LINK |-> Link, BUTTON |-> Button,
   INPUT |-> Input, TEXTAREA |-> TextArea, OPTGROUP |-> OptGroup,
   OPTION |-> Option, SELECT |-> Select, HR |-> HR, DL |-> DList,
   DIR |-> Directory, MENU |-> Menu, FIELDSET |-> FieldSet, LEGEND |-> Legend,
   P |-> Paragraph, H1 |-> Heading, H2 |-> Heading, H3 |-> Heading,
   H4 |-> Heading, H5 |-> Heading, H6 |-> Heading, BLOCKQUOTE |-> Quote,
   Q |-> Quote, PRE |-> Pre, BR |-> BR, LABEL |-> Label, UL |-> UList,
   OL |-> OList, LI |-> LI, FONT |-> Font, DEL |-> Mod, INS |-> Mod, A |-> Anchor,
   BASEFONT |-> BaseFont, IMG |-> Image, OBJECT |-> Object, PARAM |-> Param,
   APPLET |-> Applet, MAP |-> Map, AREA |-> Area, SCRIPT |-> Script,
   CAPTION |-> TableCaption, TD |-> TableCell, TH |-> TableCell,
   COL |-> TableCol, COLGROUP |-> TableCol, THEAD |-> TableSection,
   TBODY |-> TableSection, TFOOT |-> TableSection, TABLE |-> Table,
   TR |-> TableRow, STYLE |-> Style, FRAMESET |-> FrameSet, FRAME |-> Frame,
   IFRAME |-> IFrame, ISINDEX |-> IsIndex, CANVAS |-> Canvas]

(* Tags that are known but have no class of their own, and one that is not *)
(* known (_UNKNOWN): both get a plain element.                             *)
General == {"SPAN", "XYZZY"}
=============================================================================
