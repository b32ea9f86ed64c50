----------------------------- MODULE JsProperties ------------------------------
(***************************************************************************)
(* The properties of the script engine's objects, arrays and objects of    *)
(* the host: JsScriptObject.cpp, JsScriptProperty.h,                       *)
(* JsScriptObjectArray.cpp, JsScriptObjectExternal.cpp.                    *)
(*                                                                         *)
(* A table has properties by name, each with a value and attributes.  An   *)
(* object and its prototypes are a sequence of tables, the object's first; *)
(* a prototype is linked for good, as a constructor does it.  A script     *)
(* reads, puts and deletes; the host also sets attributes, and has its     *)
(* operations without a check.                                             *)
(***************************************************************************)
EXTENDS Integers, Sequences, FiniteSets, TLC

CONSTANTS Names,       \* names of properties in the order of a map
          Numbers,     \* what names mean as numbers, by name; the others are NaN
          PropertyValues,
          MaxLength    \* the largest array

Undefined == "undefined"
Property(value, attributes) == [value |-> value, attributes |-> attributes]
NoProperties == [name \in {} |-> Property(Undefined, {})]
isReadOnly(p) == "ReadOnly" \in p.attributes
dontDelete(p) == "DontDelete" \in p.attributes
dontEnum(p)   == "DontEnum" \in p.attributes

With(table, name, property) ==
    [n \in DOMAIN table \cup {name} |-> IF n = name THEN property ELSE table[n]]
Without(table, name) == [n \in DOMAIN table \ {name} |-> table[n]]

(* What an operation leaves, and what it returns.                          *)
Left(state, answer) == [state |-> state, answer |-> answer]

-------------------------------------------------------------------------------
(* Objects with prototypes.                                                *)
Having(chain, name) == {i \in DOMAIN chain : name \in DOMAIN chain[i]}
Nearest(chain, name) ==
    CHOOSE i \in Having(chain, name) : \A j \in Having(chain, name) : i <= j

hasProperty(chain, name) == Having(chain, name) # {}
getProperty(chain, name) ==
    IF hasProperty(chain, name) THEN chain[Nearest(chain, name)][name].value ELSE Undefined

(* A property that a prototype has is updated there.                       *)
updateProperty(chain, name, value) ==
    LET i == Nearest(chain, name)
    IN  IF isReadOnly(chain[i][name]) THEN Left(chain, FALSE)
        ELSE Left([chain EXCEPT ![i][name].value = value], TRUE)
\* Mutant: a property is looked for in the object itself only.
putProperty_NoPrototype(chain, name, value) ==
    IF name \in DOMAIN chain[1] THEN updateProperty(chain, name, value)
    ELSE Left([chain EXCEPT ![1] = With(@, name, Property(value, {}))], TRUE)
putProperty(chain, name, value) ==
    IF hasProperty(chain, name) THEN updateProperty(chain, name, value)
    ELSE Left([chain EXCEPT ![1] = With(@, name, Property(value, {}))], TRUE)

putPropertyAttributes(table, name, value, attributes) ==
    With(table, name, Property(value, attributes))
putPropertyNoCheck(table, name, value) == With(table, name, Property(value, {}))

deleteProperty(table, name) ==
    IF name \in DOMAIN table /\ ~dontDelete(table[name])
    THEN Left(Without(table, name), TRUE) ELSE Left(table, FALSE)
deletePropertyNoCheck(table, name) ==
    Left(Without(table, name), name \in DOMAIN table)

-------------------------------------------------------------------------------
(* Enumeration: the first name, and the next one after a given name, which *)
(* the table need not have any more; "" if there is none.                  *)
Rank(name) == CHOOSE i \in DOMAIN Names : Names[i] = name
EnumerableAfter(table, rank) ==
    {i \in DOMAIN Names : i > rank /\ Names[i] \in DOMAIN table /\ ~dontEnum(table[Names[i]])}
FirstOf(ranks) == IF ranks = {} THEN "" ELSE Names[CHOOSE i \in ranks : \A j \in ranks : i <= j]
getNameOfFirstProperty(table) == FirstOf(EnumerableAfter(table, 0))
getNameOfNextProperty(table, name) == FirstOf(EnumerableAfter(table, Rank(name)))

-------------------------------------------------------------------------------
(* Arrays.                                                                 *)
Array(table, length) == [properties |-> table, lengthM |-> length]
NewArray == Array(NoProperties, 0)
IndexName(i) == ToString(i)
AtLeast(n, m) == IF n > m THEN n ELSE m

putElementNoCheck(a, index, value) ==
    Array(putPropertyNoCheck(a.properties, IndexName(index), value),
          AtLeast(index + 1, a.lengthM))

(* The elements of an array literal, by index.                             *)
ArrayInitialiser(elements) ==
    LET fill[n \in 0 .. MaxLength] ==
            IF n = 0 THEN NewArray
            ELSE IF n - 1 \in DOMAIN elements
            THEN putElementNoCheck(fill[n - 1], n - 1, elements[n - 1]) ELSE fill[n - 1]
    IN  fill[MaxLength]

(* Array(n) and Array(values...).                                          *)
createLength(length) == Array(NoProperties, length)
createElements(values) == ArrayInitialiser([i \in 0 .. Len(values) - 1 |-> values[i + 1]])

push(a, values) ==
    LET pushed[n \in 0 .. Len(values)] ==
            IF n = 0 THEN a
            ELSE Array(putPropertyNoCheck(pushed[n - 1].properties,
                                          IndexName(pushed[n - 1].lengthM), values[n]),
                       pushed[n - 1].lengthM + 1)
    IN  pushed[Len(values)]
\* Mutant: the element popped stays.
pop_Kept(a) ==
    IF a.lengthM = 0 THEN Left(a, Undefined)
    ELSE Left([a EXCEPT !.lengthM = @ - 1],
              getProperty(<<a.properties>>, IndexName(a.lengthM - 1)))
pop(a) ==
    LET index == IndexName(a.lengthM - 1)
    IN  IF a.lengthM = 0 THEN Left(a, Undefined)
        ELSE Left(Array(deleteProperty(a.properties, index).state, a.lengthM - 1),
                  getProperty(<<a.properties>>, index))

putLength(a, length) ==
    LET dropped == {n \in DOMAIN a.properties \cap DOMAIN Numbers : Numbers[n] >= length}
    IN  Array(IF length < a.lengthM
              THEN [n \in DOMAIN a.properties \ dropped |-> a.properties[n]]
              ELSE a.properties, length)

(* A name that means a number, without a minus sign, is an index.          *)
putPropertyArray(a, name, value) ==
    Array(putProperty(<<a.properties>>, name, value).state[1],
          IF name \in DOMAIN Numbers /\ Numbers[name] >= 0
          THEN AtLeast(Numbers[name] + 1, a.lengthM) ELSE a.lengthM)

-------------------------------------------------------------------------------
(* External objects: some names are the host's.  The host gives each of    *)
(* them its methods (to get, set, delete or call it), in a sorted table,   *)
(* and holds the values; all other properties are in the object's own      *)
(* table.  An object is asked for a property by way of its base class,     *)
(* whose hasProperty is const, so that the external objects' is not used.  *)
External(table, methods, held) == [table |-> table, methods |-> methods, held |-> held]
PropertyDescriptorsC(o) ==
    LET sorted[n \in 0 .. Len(Names)] ==
            IF n = 0 THEN <<>>
            ELSE IF Names[n] \in DOMAIN o.methods THEN Append(sorted[n - 1], Names[n])
            ELSE sorted[n - 1]
    IN  sorted[Len(Names)]

\* The place of a name in the descriptors, or 0; a search goes on between
\* two places.
bsearch(o, name) ==
    LET table == PropertyDescriptorsC(o)
        search[s \in (1 .. Len(table) + 1) \X (0 .. Len(table))] ==
            LET base == s[1]
                last == s[2]
                p == base + (last - base) \div 2
            IN  IF last < base THEN 0
                ELSE IF table[p] = name THEN p
                ELSE IF Rank(name) < Rank(table[p]) THEN search[<<base, p - 1>>]
                ELSE search[<<p + 1, last>>]
    IN  search[<<1, Len(table)>>]

\* The first name after a given one among the descriptors, or "".
\* Mutant: the last descriptor that is left is not looked at.
bfindnext_Short(o, name) ==
    LET table == PropertyDescriptorsC(o)
        search[s \in (1 .. Len(table) + 1) \X (0 .. Len(table)) \X (0 .. Len(table))] ==
            LET base == s[1]
                last == s[2]
                p == base + (last - base) \div 2
            IN  IF last <= base THEN s[3]
                ELSE IF Rank(name) < Rank(table[p]) THEN search[<<base, p - 1, p>>]
                ELSE search[<<p + 1, last, s[3]>>]
        found == search[<<1, Len(table), 0>>]
    IN  IF found = 0 THEN "" ELSE table[found]
bfindnext(o, name) ==
    LET table == PropertyDescriptorsC(o)
        search[s \in (1 .. Len(table) + 1) \X (0 .. Len(table)) \X (0 .. Len(table))] ==
            LET base == s[1]
                last == s[2]
                p == base + (last - base) \div 2
            IN  IF last < base THEN s[3]
                ELSE IF Rank(name) < Rank(table[p]) THEN search[<<base, p - 1, p>>]
                ELSE search[<<p + 1, last, s[3]>>]
        found == search[<<1, Len(table), 0>>]
    IN  IF found = 0 THEN "" ELSE table[found]

hasExternalProperty(o, name) == bsearch(o, name) # 0
HasMethod(o, name, method) == hasExternalProperty(o, name) /\ method \in o.methods[name]

getPropertyExternal(o, name) ==
    IF ~hasExternalProperty(o, name) THEN getProperty(<<o.table>>, name)
    ELSE IF HasMethod(o, name, "get") THEN o.held[name] ELSE Undefined
putPropertyExternal(o, name, value) ==
    IF HasMethod(o, name, "set") THEN Left([o EXCEPT !.held[name] = value], TRUE)
    ELSE IF hasExternalProperty(o, name) THEN Left(o, FALSE)
    ELSE LET put == putProperty(<<o.table>>, name, value)
         IN  Left([o EXCEPT !.table = put.state[1]], put.answer)
deletePropertyExternal(o, name) ==
    IF HasMethod(o, name, "delete") THEN Left([o EXCEPT !.held[name] = Undefined], TRUE)
    ELSE IF hasExternalProperty(o, name) THEN Left(o, FALSE)
    ELSE LET deleted == deleteProperty(o.table, name)
         IN  Left([o EXCEPT !.table = deleted.state], deleted.answer)

Shown(o, name) == HasMethod(o, name, "get") \/ HasMethod(o, name, "set")
getNameOfFirstExternalProperty(o) ==
    LET table == PropertyDescriptorsC(o)
        shown == {p \in DOMAIN table : Shown(o, table[p])}
    IN  IF shown = {} THEN "" ELSE table[CHOOSE p \in shown : \A q \in shown : p <= q]
getNameOfNextExternalProperty(o, name) ==
    LET from[rank \in DOMAIN Names] ==
            LET next == bfindnext(o, Names[rank])
            IN  IF next = "" \/ Shown(o, next) THEN next ELSE from[Rank(next)]
    IN  from[Rank(name)]
Sooner(own, external) ==
    IF own = "" \/ (external # "" /\ Rank(external) < Rank(own)) THEN external ELSE own
getNameOfFirstPropertyExternal(o) ==
    Sooner(getNameOfFirstProperty(o.table), getNameOfFirstExternalProperty(o))
getNameOfNextPropertyExternal(o, name) ==
    Sooner(getNameOfNextProperty(o.table, name), getNameOfNextExternalProperty(o, name))

-------------------------------------------------------------------------------
(* What may be done next.  To a chain, with the property of one name: the  *)
(* script by any object of the chain, and the host, whose last property    *)
(* for every object is remembered, with the objects above which it was the *)
(* nearest then.                                                           *)
Name == Names[1]
NoPromise == [property |-> Property(Undefined, {}), bare |-> {}]
Promising(chain) == [chain |-> chain, promises |-> [k \in DOMAIN chain |-> NoPromise]]

From(chain, k) == SubSeq(chain, k, Len(chain))
Replaced(chain, k, tail) == SubSeq(chain, 1, k - 1) \o tail

ScriptChanged(o) ==
    UNION {{[o EXCEPT !.chain = Replaced(@, k, putProperty(From(@, k), Name, v).state)] :
                v \in PropertyValues}
           \cup {[o EXCEPT !.chain[k] = deleteProperty(@, Name).state]} : k \in DOMAIN o.chain}

Promised(o, k, property) ==
    [j \in DOMAIN o.chain |->
        IF j # k THEN [o.promises[j] EXCEPT !.bare = @ \ {k}]
        ELSE [property |-> property,
              bare |-> {i \in 1 .. k - 1 : Name \notin DOMAIN o.chain[i]}]]
HostPut(o, k, table) ==
    [chain |-> [o.chain EXCEPT ![k] = table],
     promises |-> Promised(o, k, table[Name])]
HostChanged(o) ==
    UNION {{HostPut(o, k, putPropertyAttributes(o.chain[k], Name, v, a)) :
                v \in PropertyValues, a \in SUBSET {"ReadOnly", "DontDelete"}}
           \cup {HostPut(o, k, putPropertyNoCheck(o.chain[k], Name, v)) : v \in PropertyValues}
           \cup {[chain |-> [o.chain EXCEPT ![k] = deletePropertyNoCheck(@, Name).state],
                  promises |-> [o.promises EXCEPT ![k] = NoPromise]]} : k \in DOMAIN o.chain}

PromiseKept(o, k) ==
    LET p == o.promises[k]
        kept == Name \in DOMAIN o.chain[k] /\ o.chain[k][Name].attributes = p.property.attributes
    IN  /\ dontDelete(p.property) => kept
        /\ isReadOnly(p.property) /\ kept => o.chain[k][Name].value = p.property.value
        /\ isReadOnly(p.property) /\ dontDelete(p.property) =>
             \A j \in 1 .. k : j .. k - 1 \subseteq p.bare =>
                 getProperty(From(o.chain, j), Name) = p.property.value

(* To an array, and to the sequence of its elements (Undefined where there *)
(* is none), with the properties that are no elements; answer and expected *)
(* are what the last pop returned and should return.                       *)
Slots(array, elements, others) ==
    [array |-> array, elements |-> elements, others |-> others,
     answer |-> Undefined, expected |-> Undefined]
Nothing(length) == [i \in 1 .. length |-> Undefined]
LargerBy(s, length) == s \o Nothing(length - Len(s))
IsIndex(name) == name \in DOMAIN Numbers /\ Numbers[name] >= 0

ArraysMade ==
    {Slots(createLength(n), Nothing(n), NoProperties) : n \in 0 .. MaxLength}
    \cup {Slots(createElements(s), s, NoProperties) : s \in UNION {[1 .. n -> PropertyValues] : n \in 1 .. MaxLength}}
    \cup {Slots(ArrayInitialiser([i \in {1} |-> v]), <<Undefined, v>>, NoProperties) : v \in PropertyValues}

ElementPut(s, name, value) ==
    LET with == putPropertyArray(s.array, name, value)
    IN  IF IsIndex(name)
        THEN Slots(with, [LargerBy(s.elements, Numbers[name] + 1) EXCEPT ![Numbers[name] + 1] = value],
                   s.others)
        ELSE Slots(with, s.elements, With(s.others, name, Property(value, {})))
ElementDeleted(s, name) ==
    LET without == [s.array EXCEPT !.properties = deleteProperty(@, name).state]
    IN  IF IsIndex(name)
        THEN Slots(without, [i \in DOMAIN s.elements |->
                                IF i = Numbers[name] + 1 THEN Undefined ELSE s.elements[i]], s.others)
        ELSE Slots(without, s.elements, Without(s.others, name))
Popped(s) ==
    LET r == pop(s.array)
        n == Len(s.elements)
    IN  [array |-> r.state, elements |-> SubSeq(s.elements, 1, n - 1), others |-> s.others,
         answer |-> r.answer, expected |-> IF n = 0 THEN Undefined ELSE s.elements[n]]

ArrayChanged(s) ==
    {Slots(push(s.array, v), s.elements \o v, s.others) :
        v \in {v \in UNION {[1 .. n -> PropertyValues] : n \in 1 .. 2} : Len(s.elements) + Len(v) <= MaxLength}}
    \cup {Popped(s)}
    \cup {Slots(putLength(s.array, n),
                IF n < Len(s.elements) THEN SubSeq(s.elements, 1, n) ELSE LargerBy(s.elements, n),
                s.others) : n \in 0 .. MaxLength}
    \cup UNION {{ElementPut(s, name, v) : v \in PropertyValues} \cup {ElementDeleted(s, name)} :
                name \in {Names[i] : i \in DOMAIN Names}}

IsSequence(s) ==
    /\ s.array.lengthM = Len(s.elements)
    /\ \A i \in 0 .. MaxLength - 1 :
         getProperty(<<s.array.properties>>, IndexName(i)) =
            IF i < Len(s.elements) THEN s.elements[i + 1] ELSE Undefined
    /\ \A name \in {Names[i] : i \in DOMAIN Names} :
         IsIndex(name) \/ getProperty(<<s.array.properties>>, name) = getProperty(<<s.others>>, name)
    /\ s.answer = s.expected

(* To an external object, by a script and, without a check, by the host.   *)
(* One without descriptors is a plain object; it may have a property that  *)
(* is not to be listed.                                                    *)
(* read is what a script has to read, by name; agreed says that the last   *)
(* answer was the one to expect.                                           *)
MethodsOf(name) == {{"get"}, {"call"}}
                   \cup IF name \in {Names[2], Names[4]} THEN {{"get", "set"}, {"get", "set", "delete"}}
                        ELSE {}
Used == {Names[2], Names[4]}
Shared(object, read, agreed) == [object |-> object, read |-> read, agreed |-> agreed]
ExternalsMade ==
    {Shared(External(NoProperties, methods, [n \in DOMAIN methods |-> "v"]),
            [n \in Used |-> IF n \in DOMAIN methods /\ "get" \in methods[n] THEN "v" ELSE Undefined], TRUE) :
        methods \in UNION {{f \in [names -> UNION {MethodsOf(n) : n \in names}] :
                                \A n \in names : f[n] \in MethodsOf(n)} :
                            names \in SUBSET {Names[i] : i \in DOMAIN Names}}}
    \cup {Shared(External([n \in {Names[3]} |-> Property("v", {"DontEnum"})],
                           [n \in {} |-> {}], [n \in {} |-> {}]),
                 [n \in Used |-> Undefined], TRUE)}

Foreign(o, name) == name \in DOMAIN o.methods
Allows(o, name, method) == ~Foreign(o, name) \/ method \in o.methods[name]
ExternalPut(s, name, value) ==
    LET put == putPropertyExternal(s.object, name, value)
        allowed == Allows(s.object, name, "set")
    IN  Shared(put.state, [s.read EXCEPT ![name] = IF allowed THEN value ELSE @], put.answer = allowed)
ExternalDeleted(s, name) ==
    LET deleted == deletePropertyExternal(s.object, name)
        allowed == Allows(s.object, name, "delete")
        there == Foreign(s.object, name) \/ s.read[name] # Undefined
    IN  Shared(deleted.state, [s.read EXCEPT ![name] = IF allowed THEN Undefined ELSE @],
               deleted.answer = (allowed /\ there))
ExternalPutNoCheck(s, name, value) ==
    Shared([s.object EXCEPT !.table = putPropertyNoCheck(@, name, value)],
           [s.read EXCEPT ![name] = IF Foreign(s.object, name) THEN @ ELSE value], TRUE)
ExternalChanged(s) ==
    UNION {{ExternalPut(s, n, v), ExternalPutNoCheck(s, n, v), ExternalDeleted(s, n)} :
              n \in Used, v \in PropertyValues}

IsOneObject(s) ==
    LET o == s.object
        Listed(i) == \/ Names[i] \in DOMAIN o.table /\ ~dontEnum(o.table[Names[i]])
                     \/ Foreign(o, Names[i]) /\ "get" \in o.methods[Names[i]]
    IN  /\ s.agreed
        /\ \A name \in Used : getPropertyExternal(o, name) = s.read[name]
        /\ \A i \in 0 .. Len(Names) :
             (IF i = 0 THEN getNameOfFirstPropertyExternal(o)
              ELSE getNameOfNextPropertyExternal(o, Names[i]))
                = FirstOf({j \in i + 1 .. Len(Names) : Listed(j)})
===============================================================================
