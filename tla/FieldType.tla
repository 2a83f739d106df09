----------------------------- MODULE FieldType -----------------------------
(***************************************************************************)
(* The type of a message field (plugin/protobuf/resolver.go ResolveType,  *)
(* getBaseType, getNestedType, IsMapEntry, checkListType).  A scalar      *)
(* field gets its base type; a field whose type is a nested key/value     *)
(* entry of the message gets a map of the entry's two field types; any    *)
(* other field gets the Type of the symbol ResolveIdentifier finds; a     *)
(* repeated field that is not a map is wrapped in a list.                  *)
(*                                                                         *)
(* Descriptor names are model values: Short[n] is the last component of   *)
(* the qualified name n (util.SplitPackageName, which is not in this      *)
(* repository, and DescriptorProto.GetName).  transformBaseType, outside  *)
(* the repository too, is "the field's kind is a scalar".  The symbol a   *)
(* name resolves to is the declared type of that name (Resolver checks    *)
(* the lookup itself).                                                     *)
(***************************************************************************)
EXTENDS Naturals, Sequences, SequencesExt

CONSTANTS
    Types,       \* qualified names of the declared messages and enums
    Undeclared,  \* qualified names that resolve to nothing
    Short,       \* [Types \cup Undeclared -> short name]
    Nested,      \* [Types -> Seq(Types)]: DescriptorProto.GetNestedType()
    FieldsOf,    \* [Types -> Seq(Field)]: DescriptorProto.GetField()
    Scalars,     \* the scalar field kinds
    Owners       \* the messages whose fields the generator resolves

NoName == "none"

\* A field of a message: name, label, kind (a scalar or "message"/"enum")
\* and the qualified name of its type.
Field == [name : STRING, label : {"optional", "repeated"},
          kind : Scalars \cup {"message", "enum"},
          typeName : Types \cup Undeclared \cup {NoName}]

\* model.Type values: a category, the base or symbol it names, and the
\* Extra types of a list or a map.
Typ(cat, name, extra) == [cat |-> cat, name |-> name, extra |-> extra]
None == Typ("nil", NoName, <<>>)
Err  == Typ("error", NoName, <<>>)

\* The container types of model/define.go, copied before Extra is set.
TypeBaseMap  == Typ("map", "map", <<>>)
TypeBaseList == Typ("list", "list", <<>>)

VARIABLES
    owner,   \* the message whose field is resolved
    field    \* the index of that field

vars == <<owner, field>>

-----------------------------------------------------------------------------
\* IsMapEntry: exactly two fields, named key and value.
IsMapEntry(nt) ==
    Len(FieldsOf[nt]) = 2
    /\ FieldsOf[nt][1].name = "key" /\ FieldsOf[nt][2].name = "value"

\* checkListType: a repeated field's type becomes a list of it.
checkListType(t, label) ==
    IF label = "repeated" THEN [TypeBaseList EXCEPT !.extra = <<t>>] ELSE t

\* getNestedType: the first nested type whose name is the last component
\* of the field's type name, or none.
getNestedType(f, nested) ==
    LET hits == {i \in DOMAIN nested : Short[nested[i]] = Short[f.typeName]}
    IN  IF hits = {} THEN NoName ELSE nested[CHOOSE i \in hits : \A j \in hits : i <= j]

RECURSIVE getBaseType(_, _), ResolveType(_, _)

(* getBaseType: a scalar, or the map a nested key/value entry stands for,  *)
(* with the entry's key and value resolved among the entry's own nested   *)
(* types; None otherwise.                                                  *)
getBaseType(f, nested) ==
    IF f.kind \in Scalars THEN checkListType(Typ("base", f.kind, <<>>), f.label)
    ELSE LET nt == getNestedType(f, nested) IN
         IF nt = NoName \/ ~IsMapEntry(nt) THEN None
         ELSE LET tk == ResolveType(FieldsOf[nt][1], Nested[nt])
                  tv == ResolveType(FieldsOf[nt][2], Nested[nt])
              IN  IF tk = Err \/ tv = Err THEN Err ELSE [TypeBaseMap EXCEPT !.extra = <<tk, tv>>]

(* ResolveType: getBaseType, else ResolveIdentifier on the type name (an  *)
(* error when nothing declares it) and the symbol's Type, list-wrapped.   *)
ResolveType(f, nested) ==
    LET bt == getBaseType(f, nested) IN
    IF bt # None THEN bt
    ELSE IF f.typeName \notin Types THEN Err
    ELSE checkListType(Typ("symbol", f.typeName, <<>>), f.label)

-----------------------------------------------------------------------------
Init ==
    /\ owner \in Owners
    /\ field \in DOMAIN FieldsOf[owner]

\* Resolution is a function of the descriptors; there is nothing to step.
Next == UNCHANGED vars

Spec == Init /\ [][Next]_vars

-----------------------------------------------------------------------------
(***************************************************************************)
(* The reference: a field has the type its type name names.  That type    *)
(* is read as a map exactly when it is a key/value entry nested in the   *)
(* field's own message (how protoc encodes map<K, V>), with the entry's  *)
(* fields resolved in turn; a repeated non-map field is a list.           *)
(***************************************************************************)
RECURSIVE NamedType(_, _)
NamedType(f, own) ==
    IF f.kind \in Scalars THEN checkListType(Typ("base", f.kind, <<>>), f.label)
    ELSE IF f.typeName \notin Types THEN Err
    ELSE IF f.typeName \in ToSet(Nested[own]) /\ IsMapEntry(f.typeName)
      THEN LET tk == NamedType(FieldsOf[f.typeName][1], f.typeName)
               tv == NamedType(FieldsOf[f.typeName][2], f.typeName)
           IN  IF tk = Err \/ tv = Err THEN Err ELSE [TypeBaseMap EXCEPT !.extra = <<tk, tv>>]
    ELSE checkListType(Typ("symbol", f.typeName, <<>>), f.label)

TypeOK ==
    /\ owner \in Owners
    /\ FieldsOf[owner][field] \in Field

(***************************************************************************)
(* ResolveType gives every field of every message the type its type name  *)
(* names, so the generated struct field has the type the IDL declares.    *)
(* getNestedType matches the nested types by their short name only.      *)
(***************************************************************************)
FieldHasNamedType ==
    ResolveType(FieldsOf[owner][field], Nested[owner])
        = NamedType(FieldsOf[owner][field], owner)

=============================================================================
