------------------------------ MODULE DataTypes ------------------------------
(* The types of a crate in WhyML.  A struct becomes a record, an enum an      *)
(* algebraic type, with functions that take a field out of a variant.  A     *)
(* variant with named fields becomes a constructor of one record, of a type  *)
(* of its own.  name_map gives each item, field, variant and variant's       *)
(* record a name, made of the item's path; WhyML has them all in one module. *)
(*                                                                           *)
(* How identifiers are spelt in WhyML is given.  A name is the words that    *)
(* are joined, and the number that tells equal ones apart: they cannot be    *)
(* confused, as to_whyml puts no quote before a digit or at the end.         *)
EXTENDS MachineInts, Sequences, FiniteSets, SequencesExt

\* For each word of a path: whether it is an identifier, and how it is spelt
\* (to_whyml) and as what a place calls for (camel_to_l, ensure_l, ensure_u).
CONSTANT Spellings

-----------------------------------------------------------------------------
(* Rust.  A type is one of integers, or one of these.                        *)

AdtTy(id) == [adt |-> id]
TupleTy(tys) == [tuple |-> tys]
RefTy(ty) == [ref |-> ty]
BoxTy(ty) == [box |-> ty]

\* A crate: its types, in groups that come one after the other, and its
\* functions; each has a path.  The name of a field is its number if it has none.
TypeField(name, named, ty) == [name |-> name, named |-> named, ty |-> ty]
TypeVariant(name, fields) == [name |-> name, fields |-> fields]
Struct(path, fields) == [kind |-> "struct", path |-> path, fields |-> fields]
Enum(path, variants) == [kind |-> "enum", path |-> path, variants |-> variants]
Opaque(path) == [kind |-> "opaque", path |-> path]
Alias(path) == [kind |-> "alias", path |-> path]
Crate(types, groups, funs) == [types |-> types, groups |-> groups, funs |-> funs]
NoTypes == Crate(<<>>, <<>>, <<>>)

\* A struct's value is that of its only variant.
STRUCT == 0
FieldsOf(decl, variant) == IF variant = STRUCT THEN decl.fields ELSE decl.variants[variant].fields

-----------------------------------------------------------------------------
(* Names *)

\* What has a name: an item, or a part of a type.
Named(kind, item, variant, field) ==
    [kind |-> kind, item |-> item, variant |-> variant, field |-> field]
TypeId(t) == Named("type", t, STRUCT, 0)
FieldId(t, v, i) == Named("field", t, v, i)
ConstructorId(t, v) == Named("constructor", t, v, 0)
RecordId(t, v) == Named("record", t, v, 0)
FunId(f) == Named("fun", f, STRUCT, 0)

\* process_path: the last identifier, as it is spelt, what is behind it, and
\* what is in front of it.
ProcessPath(path, as) ==
    LET last == SelectLastInSeq(path, LAMBDA w : Spellings[w].ident)
        spelt == [i \in DOMAIN path |-> Spellings[path[i]].to_whyml]
    IN  <<Spellings[path[last]][as]>> \o SubSeq(spelt, last + 1, Len(path))
        \o SubSeq(spelt, 1, last - 1)

\* A word behind the first so many ones.
Inserted(path, at, word) == InsertAt(path, at + 1, word)

HasRecord(variant) == variant.fields # <<>> /\ variant.fields[1].named

Entry(path, id) == [path |-> path, id |-> id]
VariantEntries(t, v, variant, path) ==
    LET constructor == Inserted(path, 1, Spellings[variant.name].ensure_u)
        record == Inserted(path, 1, Spellings[variant.name].camel_to_l)
        fields == [i \in DOMAIN variant.fields |->
                     Entry(Inserted(constructor, 2, Spellings[variant.fields[i].name].ensure_l),
                           FieldId(t, v, i))]
    IN  (IF HasRecord(variant) THEN <<Entry(record, RecordId(t, v))>> \o fields ELSE <<>>)
        \o <<Entry(constructor, ConstructorId(t, v))>>

TypeEntries(t, decl) ==
    LET path == ProcessPath(decl.path, "camel_to_l")
        parts == CASE decl.kind = "struct" ->
                        [i \in DOMAIN decl.fields |->
                           Entry(Inserted(path, 1, Spellings[decl.fields[i].name].ensure_l),
                                 FieldId(t, STRUCT, i))]
                   [] decl.kind = "enum" ->
                        FlattenSeq([v \in DOMAIN decl.variants |->
                                      VariantEntries(t, v, decl.variants[v], path)])
                   [] decl.kind \in {"opaque", "alias"} -> <<>>
    IN  Append(parts, Entry(path, TypeId(t)))

\* inv_map, as the sequence of what is put into it
NameEntries(crate) ==
    FlattenSeq([t \in DOMAIN crate.types |-> TypeEntries(t, crate.types[t])])
    \o [f \in DOMAIN crate.funs |-> Entry(ProcessPath(crate.funs[f], "ensure_l"), FunId(f))]

\* A name; nr is 0 if no other has the words.
Ident(path, nr) == [path |-> path, nr |-> nr]

\* Mutant of Names: what has a name of its own is looked up by the first of its kind.
NamesNotNumbered(crate) ==
    LET entries == NameEntries(crate)
        At(id) == SelectInSeq(entries, LAMBDA e : e.id = id)
    IN  [id \in {e.id : e \in Range(entries)} |-> Ident(entries[At(id)].path, 0)]

\* build: the words as they are, if nothing else has them, and numbered otherwise.
Names(crate) ==
    LET entries == NameEntries(crate)
        Same(path) == SelectSeq(entries, LAMBDA e : e.path = path)
        At(id) == SelectInSeq(entries, LAMBDA e : e.id = id)
        NameOf(id) == LET path == entries[At(id)].path
                          ids == Same(path)
                      IN  IF Len(ids) = 1 THEN Ident(path, 0)
                          ELSE Ident(path, SelectInSeq(ids, LAMBDA e : e.id = id))
    IN  [id \in {e.id : e \in Range(entries)} |-> NameOf(id)]

\* The functions that take what a constructor has: its record, or a field.
constructor_accessor_ident(constructor) == [get |-> constructor, field |-> 0]
constructor_field_accessor_ident(constructor, i) == [get |-> constructor, field |-> i]

-----------------------------------------------------------------------------
(* Declarations of WhyML *)

LibType(ty) == [lib |-> ty]
TupleType(ptys) == [tuple |-> ptys]
TypeApp(ident) == [app |-> ident]

RecordDecl(ident, fields) == [kind |-> "record", ident |-> ident, fields |-> fields]
AlgebraicDecl(ident, constructors) ==
    [kind |-> "algebraic", ident |-> ident, constructors |-> constructors]
AbstractDecl(ident) == [kind |-> "abstract", ident |-> ident]
RecordField(ident, pty) == [ident |-> ident, pty |-> pty]
Constructor(ident, params) == [ident |-> ident, params |-> params]

\* `let function ident (x: of) : pty = match x with
\*      constructor _ .. y .. _ -> y | _ -> absurd end`, with y in its place.
Accessor(ident, of, pty, constructor, arity, at) ==
    [ident |-> ident, of |-> of, pty |-> pty, constructor |-> constructor,
     arity |-> arity, at |-> at]

TypeDeclGroup(types, accessors) == [types |-> types, accessors |-> accessors]

\* translate_type; a shared reference and a box are what they have.
RECURSIVE TranslateType(_, _)
TranslateType(ty, names) ==
    CASE "adt" \in DOMAIN ty -> TypeApp(names[TypeId(ty.adt)])
      [] "tuple" \in DOMAIN ty ->
           TupleType([i \in DOMAIN ty.tuple |-> TranslateType(ty.tuple[i], names)])
      [] "ref" \in DOMAIN ty -> TranslateType(ty.ref, names)
      [] "box" \in DOMAIN ty -> TranslateType(ty.box, names)
      [] "signed" \in DOMAIN ty -> LibType(ty)

TranslateFields(t, v, fields, names) ==
    [i \in DOMAIN fields |->
       RecordField(names[FieldId(t, v, i)], TranslateType(fields[i].ty, names))]

\* translate_variant: the record's type, if it has one, the constructor, and
\* the accessors.
TranslateTupleLike(t, v, fields, names) ==
    LET ident == names[ConstructorId(t, v)]
        ptys == [i \in DOMAIN fields |-> TranslateType(fields[i].ty, names)]
    IN  [records |-> <<>>,
         constructor |-> Constructor(ident, ptys),
         accessors |-> [i \in DOMAIN fields |->
                          Accessor(constructor_field_accessor_ident(ident, i),
                                   TypeApp(names[TypeId(t)]), ptys[i], ident, Len(fields), i)]]

TranslateStructLike(t, v, fields, names) ==
    LET ident == names[ConstructorId(t, v)]
        record == names[RecordId(t, v)]
    IN  [records |-> <<RecordDecl(record, TranslateFields(t, v, fields, names))>>,
         constructor |-> Constructor(ident, <<TypeApp(record)>>),
         accessors |-> <<Accessor(constructor_accessor_ident(ident), TypeApp(names[TypeId(t)]),
                                  TypeApp(record), ident, 1, 1)>>]

TranslateVariant(t, v, variant, names) ==
    IF HasRecord(variant) THEN TranslateStructLike(t, v, variant.fields, names)
    ELSE TranslateTupleLike(t, v, variant.fields, names)

\* translate_enum
TranslateEnum(t, decl, names) ==
    LET parts == [v \in DOMAIN decl.variants |-> TranslateVariant(t, v, decl.variants[v], names)]
        Each(f) == FlattenSeq([v \in DOMAIN parts |-> parts[v][f]])
        constructors == [v \in DOMAIN parts |-> parts[v].constructor]
    IN  TypeDeclGroup(Append(Each("records"), AlgebraicDecl(names[TypeId(t)], constructors)),
                      Each("accessors"))

TranslateTypeDecl(t, decl, names) ==
    CASE decl.kind = "struct" ->
           TypeDeclGroup(<<RecordDecl(names[TypeId(t)],
                                      TranslateFields(t, STRUCT, decl.fields, names))>>, <<>>)
      [] decl.kind = "enum" -> TranslateEnum(t, decl, names)
      [] decl.kind = "opaque" -> TypeDeclGroup(<<AbstractDecl(names[TypeId(t)])>>, <<>>)
      [] decl.kind = "alias" -> TypeDeclGroup(<<>>, <<>>)

\* translate_type_decl_group: all types of the group, then all accessors.
TranslateGroup(ids, crate, names) ==
    LET parts == [i \in DOMAIN ids |-> TranslateTypeDecl(ids[i], crate.types[ids[i]], names)]
        Each(f) == FlattenSeq([i \in DOMAIN parts |-> parts[i][f]])
    IN  TypeDeclGroup(Each("types"), Each("accessors"))

-----------------------------------------------------------------------------
(* What declarations mean, and which are accepted *)

ConstructorsOf(groups) ==
    UNION {UNION {IF d.kind = "algebraic" THEN Range(d.constructors) ELSE {} :
                    d \in Range(g.types)} : g \in Range(groups)}
AccessorsOf(groups) == UNION {Range(g.accessors) : g \in Range(groups)}
RecordsOf(groups) ==
    UNION {{[i \in DOMAIN d.fields |-> d.fields[i].ident] :
              d \in {e \in Range(g.types) : e.kind = "record"}} : g \in Range(groups)}

\* What a global function or constructor does with its arguments: no value if
\* it must not be reached, or is not applied to as many as it has.
ApplyGlobal(groups, ident, args) ==
    LET accessor == {a \in AccessorsOf(groups) : a.ident = ident}
    IN  IF \E c \in ConstructorsOf(groups) : c.ident = ident /\ Len(c.params) = Len(args)
        THEN Some([constructor |-> ident, args |-> args])
        ELSE IF \E a \in accessor : /\ args[1].constructor = a.constructor
                                    /\ Len(args[1].args) = a.arity
        THEN Some(args[1].args[(CHOOSE a \in accessor : TRUE).at])
        ELSE None

\* The value of WhyML for a value of Rust.
RECURSIVE Represent(_, _, _, _)
Represent(value, ty, crate, names) ==
    IF "tuple" \in DOMAIN ty
    THEN [i \in DOMAIN value |-> Represent(value[i], ty.tuple[i], crate, names)]
    ELSE IF "ref" \in DOMAIN ty THEN Represent(value, ty.ref, crate, names)
    ELSE IF "box" \in DOMAIN ty THEN Represent(value, ty.box, crate, names)
    ELSE IF "adt" \notin DOMAIN ty THEN value
    ELSE LET v == value.variant
             decl == crate.types[ty.adt]
             fields == FieldsOf(decl, v)
             parts == [i \in DOMAIN fields |->
                         Represent(value.fields[i], fields[i].ty, crate, names)]
             record == {<<names[FieldId(ty.adt, v, i)], parts[i]>> : i \in DOMAIN fields}
             ident == names[ConstructorId(ty.adt, v)]
         IN  IF decl.kind = "struct" THEN [record |-> record]
             ELSE IF HasRecord(decl.variants[v])
             THEN [constructor |-> ident, args |-> <<[record |-> record]>>]
             ELSE [constructor |-> ident, args |-> parts]

\* The types that a type names.
RECURSIVE TypesIn(_)
TypesIn(pty) ==
    IF "app" \in DOMAIN pty THEN {pty.app}
    ELSE IF "tuple" \in DOMAIN pty THEN UNION {TypesIn(pty.tuple[i]) : i \in DOMAIN pty.tuple}
    ELSE {}

TypesUsed(group) ==
    UNION {CASE d.kind = "record" -> UNION {TypesIn(f.pty) : f \in Range(d.fields)}
             [] d.kind = "algebraic" ->
                  UNION {UNION {TypesIn(p) : p \in Range(c.params)} : c \in Range(d.constructors)}
             [] d.kind = "abstract" -> {} : d \in Range(group.types)}
    \union UNION {TypesIn(a.pty) \union TypesIn(a.of) : a \in Range(group.accessors)}
TypesDeclared(group) == {d.ident : d \in Range(group.types)}

\* All names that are declared, functions included.
DeclaredNames(groups, crate, names) ==
    LET OfType(d) == <<d.ident>> \o
                     CASE d.kind = "record" -> [i \in DOMAIN d.fields |-> d.fields[i].ident]
                       [] d.kind = "algebraic" ->
                            [i \in DOMAIN d.constructors |-> d.constructors[i].ident]
                       [] d.kind = "abstract" -> <<>>
        OfGroup(g) == FlattenSeq([i \in DOMAIN g.types |-> OfType(g.types[i])])
                      \o [i \in DOMAIN g.accessors |-> g.accessors[i].ident]
    IN  FlattenSeq([i \in DOMAIN groups |-> OfGroup(groups[i])])
        \o [f \in DOMAIN crate.funs |-> names[FunId(f)]]

\* No name is declared twice, and no type is used ahead of its group.
WellDeclared(groups, crate, names) ==
    /\ IsInjective(DeclaredNames(groups, crate, names))
    /\ \A i \in DOMAIN groups :
         TypesUsed(groups[i]) \subseteq UNION {TypesDeclared(groups[j]) : j \in 1 .. i}
=============================================================================
