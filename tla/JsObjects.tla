------------------------------ MODULE JsObjects -------------------------------
(***************************************************************************)
(* What the programs of the script engine hold: first, the counting of     *)
(* references to the strings, objects and references that values and smart *)
(* pointers hold.                                                          *)
(*                                                                         *)
(* A store has cells, which are allocated and freed, and their holders:    *)
(* values (the local variables of the engine's C++ code and the properties *)
(* of objects), smart pointers, and references, which hold their base      *)
(* object.  An object has one property.  Strings and numbers are left out. *)
(* Callers take a property's value by a copy, turn no reference into a     *)
(* string, and assign no smart pointer to itself.                          *)
(*                                                                         *)
(* Then the use of one object and its prototypes, with all their           *)
(* properties (JsProperties), by scripts and by the host, that of an array *)
(* and that of an object with properties of the host.                      *)
(***************************************************************************)
EXTENDS Integers, Sequences, FiniteSets

CONSTANTS Cells,      \* what can be allocated
          Locals,     \* values
          Pointers,   \* smart pointers to objects
          PropertyNames, NameNumbers, PropertyValues, MaxLength,    \* of Table
          MaxChain    \* the most tables of an object and its prototypes

NoCell == "none"

ASSUME CountAssumption ==
    NoCell \notin Cells /\ IsFiniteSet(Cells) /\ IsFiniteSet(Locals) /\ IsFiniteSet(Pointers)

VARIABLES subject,    \* what the engine is given: here, values or an object
          result      \* what has become of it: the store, or the object

Table == INSTANCE JsProperties WITH Names <- PropertyNames, Numbers <- NameNumbers

\* Every index has one name, and every other name is that of a negative
\* number, or of none.
ASSUME ArrayAssumption ==
    /\ MaxLength \in Nat /\ MaxLength >= 2
    /\ \A i \in 0 .. MaxLength - 1 :
          Table!IndexName(i) \in DOMAIN NameNumbers /\ NameNumbers[Table!IndexName(i)] = i
    /\ \A name \in DOMAIN NameNumbers :
          /\ NameNumbers[name] \in Int
          /\ NameNumbers[name] >= 0 => /\ NameNumbers[name] < MaxLength
                                       /\ name = Table!IndexName(NameNumbers[name])

\* Names differ, and undefined is no value to put.
ASSUME NameAssumption ==
    /\ PropertyNames \in Seq({PropertyNames[i] : i \in DOMAIN PropertyNames})
    /\ Len(PropertyNames) >= 4
    /\ \A i, j \in DOMAIN PropertyNames : PropertyNames[i] = PropertyNames[j] => i = j
    /\ \A i \in DOMAIN PropertyNames : PropertyNames[i] # ""
    /\ Table!Undefined \notin PropertyValues

Typed(type, cell) == [type |-> type, cell |-> cell]
UndefinedValue == Typed("undefined", NoCell)
Unborn         == Typed("unborn", NoCell)       \* not constructed, or destroyed
HoldsCell(v)   == v.type \in {"string", "object", "reference"}
CellOf(v)      == IF HoldsCell(v) THEN v.cell ELSE NoCell

Free == [kind |-> "free", count |-> 0, property |-> UndefinedValue, base |-> NoCell]
Empty == [cells |-> [c \in Cells |-> Free], locals |-> [l \in Locals |-> Unborn],
          pointers |-> [p \in Pointers |-> NoCell], fault |-> FALSE]

FreeCells(h) == {c \in Cells : h.cells[c].kind = "free"}
New(h) == CHOOSE c \in FreeCells(h) : TRUE

-------------------------------------------------------------------------------
(* Counting; the use of a freed cell is a fault.                           *)
AddRef(h, c) ==
    CASE c = NoCell -> h
      [] c # NoCell /\ h.cells[c].kind = "free" -> [h EXCEPT !.fault = TRUE]
      [] OTHER -> [h EXCEPT !.cells[c].count = @ + 1]

(* The last release deletes the cell, and its own destructor releases the  *)
(* one it holds: the store after one release, and the cell that is next.   *)
HeldBy(cell) ==
    CASE cell.kind = "object" -> CellOf(cell.property)
      [] cell.kind = "reference" -> cell.base
      [] OTHER -> NoCell

ReleaseOne(h, c) ==
    CASE c = NoCell -> [store |-> h, next |-> NoCell]
      [] c # NoCell /\ h.cells[c].kind = "free" ->
            [store |-> [h EXCEPT !.fault = TRUE], next |-> NoCell]
      [] c # NoCell /\ h.cells[c].kind # "free" /\ h.cells[c].count > 1 ->
            [store |-> [h EXCEPT !.cells[c].count = @ - 1], next |-> NoCell]
      [] OTHER -> [store |-> [h EXCEPT !.cells[c] = Free], next |-> HeldBy(h.cells[c])]

(* All but the last release free a cell.                                   *)
MostReleases == Cardinality(Cells) + 1
Releases(h, c) ==
    LET r[n \in 0 .. MostReleases] ==
          IF n = 0 THEN [store |-> h, next |-> c] ELSE ReleaseOne(r[n-1].store, r[n-1].next)
    IN  r
Release(h, c) == Releases(h, c)[MostReleases].store

(* ~ScriptValue; and a value holds what it is constructed from.            *)
Destroyed(h, v) == Release(h, CellOf(v))
Held(h, v) == AddRef(h, CellOf(v))
Copy(v) == IF HoldsCell(v) /\ v.cell = NoCell THEN Typed("null", NoCell) ELSE v

(* A new string, object or reference; nobody holds it yet.                 *)
Allocated(h, kind, property, base) ==
    LET cell == [kind |-> kind, count |-> 0, property |-> property, base |-> base]
    IN  AddRef([h EXCEPT !.cells[New(h)] = cell], HeldBy(cell))

(* The value in the local l becomes v, which is held already.              *)
Put(h, l, v) == [h EXCEPT !.locals[l] = v]

(* operator=: the old value is released before the other one is held.      *)
Assigned(h, l, other) == Put(Held(Destroyed(h, h.locals[l]), other), l, Copy(other))
AssignLocal(h, l, from) == IF l = from THEN h ELSE Assigned(h, l, h.locals[from])

(* A value of kind k that is constructed or read: a new cell is held.      *)
Constructs(h, l, kind, property, base) ==
    LET c == New(h) IN Put(AddRef(Allocated(h, kind, property, base), c), l, Typed(kind, c))

-------------------------------------------------------------------------------
(* Conversions of a value in place.                                        *)
\* Mutant: a string is not released.
convertToBoolean_StringKept(h, l) ==
    Put(IF h.locals[l].type = "string" THEN h ELSE Destroyed(h, h.locals[l]),
        l, Typed("boolean", NoCell))
convertToBoolean(h, l) == Put(Destroyed(h, h.locals[l]), l, Typed("boolean", NoCell))
convertToNumber(h, l)  == Put(Destroyed(h, h.locals[l]), l, Typed("number", NoCell))

(* A primitive value is wrapped in a new object that keeps it.             *)
convertToObject(h, l) ==
    LET v == h.locals[l]
        c == New(h)
        made == Allocated(h, "object", v, NoCell)
    IN  IF v.type = "object" THEN h
        ELSE Put(AddRef(Destroyed(made, v), c), l, Typed("object", c))

(* A string stays; an object assigns its string value to the value.        *)
convertToString(h, l) ==
    LET v == h.locals[l]
        c == New(h)
        temporary == AddRef(Allocated(h, "string", UndefinedValue, NoCell), c)
    IN  CASE v.type = "string" -> h
          [] v.type = "object" -> Release(Assigned(temporary, l, Typed("string", c)), c)
          [] OTHER -> Put(temporary, l, Typed("string", c))

(* References.                                                             *)
Base(h, v) == h.cells[v.cell].base
PropertyOf(h, v) == h.cells[Base(h, v)].property

(* getValue gives a copy, which is assigned and destroyed.                 *)
GetValue(h, l, reference) ==
    LET v == PropertyOf(h, h.locals[reference])
    IN  Destroyed(Assigned(Held(h, v), l, v), v)
PutValue(h, reference, l) ==
    LET c == Base(h, h.locals[reference])
        old == h.cells[c].property
        v == h.locals[l]
        held == Held(Destroyed(h, old), v)
    IN  [held EXCEPT !.cells[c].property = Copy(v)]

(* A smart pointer is assigned a pointer.                                  *)
PointAt(h, p, c) ==
    [AddRef(Release(h, h.pointers[p]), c) EXCEPT !.pointers[p] = c]

-------------------------------------------------------------------------------
(* What the engine may do next with a store.                               *)
Is(h, l, types) == h.locals[l].type \in types
Alive(h, l) == h.locals[l] # Unborn
Primitive == {"undefined", "null", "boolean", "number", "string"}

Constructed(h) ==
    LET unborn == {l \in Locals : ~Alive(h, l)}
        objects == {l \in Locals : Is(h, l, {"object"})}
    IN  {Put(h, l, UndefinedValue) : l \in unborn}
        \cup (IF FreeCells(h) = {} THEN {}
              ELSE {Constructs(h, l, kind, UndefinedValue, NoCell) : l \in unborn, kind \in {"string", "object"}}
                   \cup {Constructs(h, l, "reference", UndefinedValue, h.locals[o].cell) :
                            l \in unborn, o \in objects})
        \cup {Put(Held(h, h.locals[o]), l, Copy(h.locals[o])) :
                l \in unborn, o \in {l \in Locals : Alive(h, l)}}
        \cup {Put(AddRef(h, h.pointers[p]), l, Typed("object", h.pointers[p])) :
                l \in unborn, p \in {p \in Pointers : h.pointers[p] # NoCell}}

Changed(h) ==
    LET alive == {l \in Locals : Alive(h, l)}
        references == {l \in Locals : Is(h, l, {"reference"})}
        primitive  == {l \in Locals : Is(h, l, Primitive)}
        objects    == {l \in Locals : Is(h, l, {"object"})}
    IN  {Put(Destroyed(h, h.locals[l]), l, Unborn) : l \in alive}
        \cup {AssignLocal(h, l, other) : l \in alive, other \in alive}
        \cup {convertToBoolean(h, l) : l \in alive}
        \cup {convertToNumber(h, l) : l \in alive}
        \cup (IF FreeCells(h) = {} THEN {}
              ELSE {convertToObject(h, l) : l \in {l \in primitive : ~Is(h, l, {"undefined", "null"})}}
                   \cup {convertToString(h, l) : l \in primitive \cup objects})
        \cup {GetValue(h, l, r) : l \in alive, r \in references}
        \cup {PutValue(h, r, l) : l \in {l \in alive : ~Is(h, l, {"reference"})}, r \in references}
        \cup {PointAt(h, p, c) : p \in Pointers, c \in {NoCell} \cup {h.locals[o].cell : o \in objects}}
        \cup UNION {{PointAt(h, p, h.pointers[q]) : q \in Pointers \ {p}} : p \in Pointers}

-------------------------------------------------------------------------------
(* Values and smart pointers are constructed, changed and destroyed.       *)
CountInit == subject = [kind |-> "values"] /\ result = Empty

Construct ==
    /\ subject.kind = "values"
    /\ result' \in Constructed(result)
    /\ UNCHANGED subject
Change ==
    /\ subject.kind = "values"
    /\ result' \in Changed(result)
    /\ UNCHANGED subject

CountNext == Construct \/ Change
CountSpec == CountInit /\ [][CountNext]_<<subject, result>>

-------------------------------------------------------------------------------
(* Who holds a cell.                                                       *)
Live(h) == {c \in Cells : h.cells[c].kind # "free"}
Holders(h, c) ==
    Cardinality({l \in Locals : CellOf(h.locals[l]) = c})
    + Cardinality({p \in Pointers : h.pointers[p] = c})
    + Cardinality({d \in Live(h) : CellOf(h.cells[d].property) = c})
    + Cardinality({d \in Live(h) : h.cells[d].base = c})
Exact(h) == ~h.fault /\ \A c \in Cells : h.cells[c].count = Holders(h, c)
                                         /\ (h.cells[c].kind = "free" <=> Holders(h, c) = 0)

(* A string, object or reference exists as long as something holds it, its *)
(* count is the number of its holders, and none is used after it is freed: *)
(* whatever is assigned, converted, stored and destroyed in which order.   *)
RefCountsExact == subject.kind = "values" => Exact(result)

-------------------------------------------------------------------------------
ObjectInit ==
    /\ subject = [kind |-> "object"]
    /\ result \in {Table!Promising([k \in 1 .. n |-> Table!NoProperties]) : n \in 1 .. MaxChain}

(* A script and the host use an object that has prototypes.                *)
UseByScript ==
    /\ subject.kind = "object"
    /\ result' \in Table!ScriptChanged(result)
    /\ UNCHANGED subject
UseByHost ==
    /\ subject.kind = "object"
    /\ result' \in Table!HostChanged(result)
    /\ UNCHANGED subject

ObjectNext == UseByScript \/ UseByHost
ObjectSpec == ObjectInit /\ [][ObjectNext]_<<subject, result>>

(* What a script does to an object or to its prototypes does not undo what *)
(* the host has put: a property that must not be deleted stays, with its   *)
(* attributes; one that is read-only keeps its value; and every object     *)
(* that had it from its prototypes goes on to read the host's value, which *)
(* no property of its own ever hides.                                      *)
HostPropertiesHold ==
    subject.kind = "object" => \A k \in DOMAIN result.chain : Table!PromiseKept(result, k)

-------------------------------------------------------------------------------
ArrayInit == subject = [kind |-> "array"] /\ result \in Table!ArraysMade

(* A script uses an array.                                                 *)
UseArray ==
    /\ subject.kind = "array"
    /\ result' \in Table!ArrayChanged(result)
    /\ UNCHANGED subject

ArraySpec == ArrayInit /\ [][UseArray]_<<subject, result>>

(* An array is a sequence: whatever is pushed, popped, put, deleted and    *)
(* cut off, its length and its elements are those of one, and properties   *)
(* that are no elements stay.                                              *)
ArraysAreSequences ==
    subject.kind = "array" => Table!IsSequence(result)

-------------------------------------------------------------------------------
ExternalInit == subject = [kind |-> "external"] /\ result \in Table!ExternalsMade

(* A script uses an object some of whose properties are the host's.        *)
UseExternal ==
    /\ subject.kind = "external"
    /\ result' \in Table!ExternalChanged(result)
    /\ UNCHANGED subject

ExternalSpec == ExternalInit /\ [][UseExternal]_<<subject, result>>

(* An external object, or a plain one, which has no methods of the host,   *)
(* is one object to a script: what it puts and deletes                     *)
(* is what it reads, as far as the host's methods allow it, whatever the   *)
(* host has put below; and its names, the host's and its own, are listed   *)
(* in one order, each once, beginning anywhere.                            *)
ExternalsAsOne ==
    subject.kind = "external" => Table!IsOneObject(result)
===============================================================================
