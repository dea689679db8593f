---------------------------- MODULE HTMLElements ----------------------------
(***************************************************************************)
(* HTML elements and the properties by which they reflect their attributes *)
(* (src/html/html_element.c and the element files).  An element is created *)
(* by its tag name, copied and destroyed; its attributes are set by name,  *)
(* by attribute node or by a property of its class.  An attribute's name   *)
(* is in lower case unless it came with an attribute node, whose name is   *)
(* kept as it is.                                                          *)
(* The order of attributes and the life of attribute nodes are the subject *)
(* of ElementAttributes; here the attributes are a map.                    *)
(***************************************************************************)
EXTENDS Integers, FiniteSets, Functions, HTMLClasses

CONSTANTS
  Element,        \* the element structures of a run
  Tag,            \* the tag names used, in upper case
  Word,           \* texts that are not decimal numerals
  Reading,        \* the number strtoul finds in each of them, modulo Modulus
  Modulus,        \* stands for 2^32, the number of values of a dom_ulong
  Given,          \* bound: the texts that clients set attributes to
  MaxAttributes,  \* bound: attributes that are not copied from others
  NULL,           \* no element; no text
  Garbage         \* what reading text that is not there gives

ASSUME TagAssumption == Tag \subseteq DOMAIN Specialised \cup General
ASSUME ModulusAssumption == Modulus \in Nat /\ Modulus > 1 /\ Modulus % 2 = 0
ASSUME ReadingAssumption == Reading \in [Word -> 0 .. Modulus - 1]
ASSUME BoundAssumption == MaxAttributes \in Nat \ {0}

VARIABLES
  kind,    \* the tag name of each element, from which its class follows
  attrs,   \* its attributes: a function from names to texts
  flags    \* dom_html_script_element.flags

vars == <<kind, attrs, flags>>

Number == 0 .. Modulus - 1
Decimal(n) == ToString(n)
Text == Word \cup {Decimal(n) : n \in Number}

ASSUME GivenAssumption == Given \subseteq Text
ASSUME SentinelAssumption == {NULL, Garbage} \cap Text = {} /\ NULL # Garbage

Flag == {"non_blocking", "already_started"}

-----------------------------------------------------------------------------
(* Names.                                                                  *)

Name(n) == [name |-> n, upper |-> FALSE]

LowerCase(k) == [k EXCEPT !.upper = FALSE]

ClassOf(tag) ==
  IF tag \in DOMAIN Specialised THEN Specialised[tag] ELSE Plain

StringProperties(c) == c.strings \cup (c.readable \cap c.writable)

(* The names by which a class reflects attributes.                         *)
NamesOf(c) ==
  {Memo(p) : p \in c.strings \cup c.readable \cup c.writable}
    \cup Range(c.signed) \cup Range(c.unsigned) \cup Range(c.switches)

-----------------------------------------------------------------------------
(* Operations on the attributes of one element.                            *)

SetTo(a, k, t) == [x \in DOMAIN a \cup {k} |-> IF x = k THEN t ELSE a[x]]
Remove(a, k) == Restrict(a, DOMAIN a \ {k})

AttributeSet(a, k, t) == SetTo(a, LowerCase(k), t)
AttributeRemoved(a, k) == Remove(a, LowerCase(k))

(* An attribute node goes by the name it was created with; it has no text. *)
NodeSet(a, k) == SetTo(a, k, NULL)

(* A number is written in decimal, as unsigned.                            *)
Written(n) == Decimal(n % Modulus)

(* The attribute of a switch is removed, or made without text.             *)
Switched(a, n, on) ==
  CASE Name(n) \in DOMAIN a /\ ~on -> Remove(a, Name(n))
    [] Name(n) \notin DOMAIN a /\ on -> NodeSet(a, Name(n))
    [] OTHER -> a

-----------------------------------------------------------------------------
(* Reading.  value is what a getter returns.                               *)

ReadText(t) == IF t = NULL THEN "" ELSE t

(* The text of an attribute node without a child is NULL, which the number *)
(* getters read as a string all the same.                                  *)
Strtoul(t) ==
  CASE t = NULL -> Garbage
    [] t \in Word -> Reading[t]
    [] OTHER -> CHOOSE n \in Number : Decimal(n) = t

(* Mutant: a number that does not fit is cut off.                          *)
AsSigned_Saturated(n) ==
  CASE n = Garbage -> Garbage
    [] n >= Modulus \div 2 -> (Modulus \div 2) - 1
    [] OTHER -> n

(* The conversion to an int32_t.                                           *)
AsSigned(n) ==
  CASE n = Garbage -> Garbage
    [] n >= Modulus \div 2 -> n - Modulus
    [] OTHER -> n

ReadString(c, a, p) ==
  CASE Name(Memo(p)) \in DOMAIN a -> ReadText(a[Name(Memo(p))])
    [] p \in DOMAIN c.default -> c.default[p]
    [] OTHER -> NULL

ReadSigned(c, a, p) ==
  LET k == Name(c.signed[p])
  IN  IF k \in DOMAIN a THEN AsSigned(Strtoul(a[k])) ELSE -1

(* A getter that makes up a value takes the number that stands for unset   *)
(* for an attribute that is not there.                                     *)
ReadUnsigned(c, a, p) ==
  LET k == Name(c.unsigned[p])
      n == IF k \in DOMAIN a THEN Strtoul(a[k]) ELSE Modulus - 1
  IN  IF n = Modulus - 1 /\ p \in DOMAIN c.default THEN c.default[p] ELSE n

ReadSwitch(c, a, p) == Name(c.switches[p]) \in DOMAIN a

Properties(c) ==
  {<<"string", p>> : p \in c.strings \cup c.readable}
    \cup {<<"signed", p>> : p \in DOMAIN c.signed}
    \cup {<<"unsigned", p>> : p \in DOMAIN c.unsigned}
    \cup {<<"switch", p>> : p \in DOMAIN c.switches}

Read(c, a, property) ==
  LET p == property[2]
  IN  CASE property[1] = "string" -> ReadString(c, a, p)
        [] property[1] = "signed" -> ReadSigned(c, a, p)
        [] property[1] = "unsigned" -> ReadUnsigned(c, a, p)
        [] property[1] = "switch" -> ReadSwitch(c, a, p)

-----------------------------------------------------------------------------
(* The client's calls.                                                     *)

Exists(e) == kind[e] # NULL
ClassAt(e) == ClassOf(kind[e])

Become(e, a) ==
  /\ attrs' = [attrs EXCEPT ![e] = a]
  /\ UNCHANGED <<kind, flags>>

CreateElement(e, tag) ==
  /\ ~Exists(e)
  /\ kind' = [kind EXCEPT ![e] = tag]
  /\ attrs' = [attrs EXCEPT ![e] = <<>>]
  /\ flags' = [flags EXCEPT ![e] = IF tag = "SCRIPT" THEN "non_blocking" ELSE NULL]

DestroyElement(e) ==
  /\ Exists(e)
  /\ kind' = [kind EXCEPT ![e] = NULL]
  /\ attrs' = [attrs EXCEPT ![e] = <<>>]
  /\ flags' = [flags EXCEPT ![e] = NULL]

CopyOf(a) == a

(* The flags of a copied script are never written.                         *)
CloneElement(e, copy) ==
  /\ Exists(e)
  /\ ~Exists(copy)
  /\ kind' = [kind EXCEPT ![copy] = kind[e]]
  /\ attrs' = [attrs EXCEPT ![copy] = CopyOf(attrs[e])]
  /\ IF kind[e] = "SCRIPT"
     THEN \E f \in Flag : flags' = [flags EXCEPT ![copy] = f]
     ELSE UNCHANGED flags

SetAttribute(e, k, t) == Exists(e) /\ Become(e, AttributeSet(attrs[e], k, t))

RemoveAttribute(e, k) == Exists(e) /\ Become(e, AttributeRemoved(attrs[e], k))

SetAttributeNode(e, k) == Exists(e) /\ Become(e, NodeSet(attrs[e], k))

SetString(e, p, t) ==
  Exists(e) /\ Become(e, AttributeSet(attrs[e], Name(Memo(p)), t))

SetNumber(e, n, number) ==
  Exists(e) /\ Become(e, AttributeSet(attrs[e], Name(n), Written(number)))

SetSwitch(e, n, on) == Exists(e) /\ Become(e, Switched(attrs[e], n, on))

SetFlags(e, f) ==
  /\ kind[e] = "SCRIPT"
  /\ flags' = [flags EXCEPT ![e] = f]
  /\ UNCHANGED <<kind, attrs>>

Init ==
  /\ kind = [e \in Element |-> NULL]
  /\ attrs = [e \in Element |-> <<>>]
  /\ flags = [e \in Element |-> NULL]

AttributesInUse(as) ==
  Cardinality(UNION {{e} \X DOMAIN as[e] : e \in Element})

Keys(c) == [name : NamesOf(c), upper : BOOLEAN]

Next ==
  /\ \/ \E e \in Element :
          \/ /\ \A x \in Element : ~Exists(x)  \* bound: others are copies
             /\ \E tag \in Tag : CreateElement(e, tag)
          \/ DestroyElement(e)
          \/ \E copy \in Element : CloneElement(e, copy)
          \/ \E f \in Flag : SetFlags(e, f)
     \/ \E e \in {x \in Element : Exists(x)} :
          \/ \E k \in Keys(ClassAt(e)) :
               \/ \E t \in Given : SetAttribute(e, k, t)
               \/ RemoveAttribute(e, k)
               \/ SetAttributeNode(e, k)
          \/ \E p \in ClassAt(e).strings \cup ClassAt(e).writable, t \in Given :
               SetString(e, p, t)
          \/ \E n \in Range(ClassAt(e).signed) \cup Range(ClassAt(e).unsigned),
               number \in Number : SetNumber(e, n, number)
          \/ \E n \in Range(ClassAt(e).switches), on \in BOOLEAN :
               SetSwitch(e, n, on)
  /\ kind' = kind => AttributesInUse(attrs') <= MaxAttributes

Spec == Init /\ [][Next]_vars

-----------------------------------------------------------------------------
(* Type invariant.                                                         *)
TypeOK ==
  /\ kind \in [Element -> Tag \cup {NULL}]
  /\ \A e \in Element :
       /\ DOMAIN attrs[e] \subseteq
            (IF Exists(e) THEN Keys(ClassAt(e)) ELSE {})
       /\ \A k \in DOMAIN attrs[e] :
            attrs[e][k] \in (IF k.upper THEN {NULL} ELSE Text \cup {NULL})
       /\ (flags[e] \in Flag) <=> (kind[e] = "SCRIPT")

(* Whatever the element's attributes are, what a setter is given its       *)
(* getter returns: the accessors of a property name the same attribute,    *)
(* and numbers survive being written as unsigned decimals and read back as *)
(* signed ones.  The number that stands for "unset" is the exception where *)
(* the getter makes up a value (html_canvas_element.c).                    *)
ReadsBack ==
  \A e \in {x \in Element : Exists(x)} :
    LET c == ClassAt(e)
        a == attrs[e]
    IN  /\ \A p \in StringProperties(c), t \in Text :
             ReadString(c, AttributeSet(a, Name(Memo(p)), t), p) = t
        /\ \A p \in DOMAIN c.signed, n \in -(Modulus \div 2) .. (Modulus \div 2) - 1 :
             ReadSigned(c, AttributeSet(a, Name(c.signed[p]), Written(n)), p) = n
        /\ \A p \in DOMAIN c.unsigned, n \in Number :
             (p \in DOMAIN c.default => n # Modulus - 1) =>
               ReadUnsigned(c, AttributeSet(a, Name(c.unsigned[p]), Written(n)), p) = n
        /\ \A p \in DOMAIN c.switches, on \in BOOLEAN :
             ReadSwitch(c, Switched(a, c.switches[p], on), p) = on

(* Attributes are only what they can be, and properties read back.         *)
PropertiesReadBack == TypeOK /\ ReadsBack

(* A call that sets or removes an attribute, by whatever name or property, *)
(* changes what at most one property of one element reads: no two          *)
(* properties of a class share an attribute.                               *)
ChangesOneProperty ==
  [][kind' = kind =>
       Cardinality({ep \in UNION {{e} \X Properties(ClassAt(e)) :
                                    e \in {x \in Element : Exists(x)}} :
                      Read(ClassAt(ep[1]), attrs[ep[1]], ep[2])
                        # Read(ClassAt(ep[1]), attrs[ep[1]], ep[2])'}) <= 1]_vars
=============================================================================
