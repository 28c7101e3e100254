--------------------------- MODULE StructuredData ---------------------------
(***************************************************************************)
(* From the official files of one snapshot to what the API serves:         *)
(* validation and conversion (app/jcc_data/adapters.py, validation.py),    *)
(* the insertion of the entity rows under the constraints of the tables,   *)
(* the test whether a snapshot that is there is complete, and the lists    *)
(* and joins of the readers (app/jcc_data/repository.py).                  *)
(*                                                                         *)
(* SnapshotSync has the commands, locks and the pointer, and takes what is *)
(* in a file for one content.  Here a file is the sequence of its records  *)
(* in the order of the JSON text.  Ids and counts are small integers; what *)
(* is left of a record is text: "good", "bad" when a required or an        *)
(* optional field is refused, "wide" when every field is accepted and one  *)
(* is longer or larger than its column.                                    *)
(*                                                                         *)
(* A table is a function from the ids of its rows to the rows; tables      *)
(* whose rows nothing refers to are sets of rows.                          *)
(***************************************************************************)
EXTENDS Integers, SequencesExt, FiniteSetsExt

CONSTANTS
    Sources,    \* what the origin may serve: a record of files
    Base,       \* the content of another revision of the version
    MaxImports  \* bound: runs of the import

ASSUME ImportsAssumption == MaxImports \in Nat

VARIABLES
    source,   \* what the origin serves in this behaviour
    tables,   \* the rows of each table
    current,  \* jcc_current_snapshots.snapshot_id, 0 without a row
    outcome   \* how each import ended, in order

vars == <<source, tables, current, outcome>>

(* jcc_heroes, jcc_equipment and the simple tables go by their files.      *)
Kinds == {"race", "job"}
Simple == {"hex", "adventure", "galaxy"}
EntityFiles == {"chess", "equip"} \union Simple
Files == Kinds \union {"trait"} \union EntityFiles

(* "0" and "-1" stand for no id; Blank is an empty part of a "|" list, or  *)
(* one that is not a number where numbers are listed.                      *)
Sentinels == {0, -1}
Blank == -2

(* What a JSON object can hold: records with what is looked at of their    *)
(* fields, under keys of which none comes twice.                           *)
Texts == {"good", "bad", "wide"}
Plains == [key : Int, id : Int, text : Texts]
Bases == [key : Int, id : Int, list : Seq(Int), max : Int, text : Texts]
TierRecord == [key : Int, id : Int, check : Int, type : Int, level : Int,
               num : Seq(Int) \ {<<>>}, agree : BOOLEAN, max : Int, text : Texts]
Heroes == [key : Int, id : Int, class : Seq(Int), species : Seq(Int), text : Texts]
Pieces == [key : Int, id : Int, first : Int, second : Int, text : Texts]

IsObject(file) == IsInjective([i \in DOMAIN file |-> file[i].key])

IsRaw(raw) ==
    /\ \A kind \in Kinds : raw[kind] \in Seq(Bases)
    /\ raw.trait \in Seq(TierRecord)
    /\ raw.chess \in Seq(Heroes)
    /\ raw.equip \in Seq(Pieces)
    /\ \A f \in Simple : raw[f] \in Seq(Plains)
    /\ \A f \in Files : IsObject(raw[f])

ASSUME SourcesAssumption == \A raw \in Sources \union {Base} : IsRaw(raw)

IdsOf(file) == {e.id : e \in ToSet(file)}

(* The numbers of a finite set in their order.                             *)
Ordered(S) == [n \in 1..Cardinality(S) |->
    CHOOSE x \in S : Cardinality({y \in S : y < x}) = n - 1]

(* Rows in the order of a column, in which no two of them agree.           *)
InOrder(rows, column) ==
    LET order == Ordered({r[column] : r \in rows})
    IN  [n \in DOMAIN order |-> CHOOSE r \in rows : r[column] = order[n]]
-----------------------------------------------------------------------------
(* Validation and conversion: a source is accepted or raises.              *)

(* ensure_key_matches_id                                                   *)
IsEntity(e) == e.id \notin Sentinels /\ e.key = e.id /\ e.text # "bad"

(* adventureId, which is not the key of the record.                        *)
IsAdventure(e) == e.id \notin Sentinels /\ e.text # "bad"

(* Mutant: parts may repeat.                                               *)
SplitsBug(parts) == Blank \notin ToSet(parts)

Splits(parts) == Blank \notin ToSet(parts) /\ IsInjective(parts)

(* The elements of a list at some of its places.                           *)
Pick(list, places) == LET order == Ordered(places)
                      IN  [n \in DOMAIN order |-> list[order[n]]]

Relations(parts) == Pick(parts, {p \in DOMAIN parts : parts[p] \notin Sentinels})

(* maxLevel, 0 when it is absent.                                          *)
MaxIs(max, n) == max \in {0, n}

(* A record of race or job, before its tiers.                              *)
IsTrait(t) == IsEntity(t) /\ Splits(t.list) /\ MaxIs(t.max, Len(t.list))

(* The base trait of a record of trait.  type is 0, 1 or unknown.          *)
KindOf(r) == CASE r.type = 0 -> "race" [] r.type = 1 -> "job" [] OTHER -> "none"
BasesOf(raw, r) == IF KindOf(r) = "none" THEN {}
                   ELSE {t \in ToSet(raw[KindOf(r)]) : t.id = r.check}

(* A record has one tier, or all of a trait when num is a list; num, the   *)
(* other lists and the descriptions (agree) must then be those of the base.*)
IsAggregate(r) == Len(r.num) > 1

Tiers(r) ==
    IF IsAggregate(r)
      THEN {[level |-> l, count |-> r.num[l], text |-> r.text] : l \in DOMAIN r.num}
      ELSE {[level |-> r.level, count |-> r.num[1], text |-> r.text]}

IsTierRecord(raw, r) ==
    /\ IsEntity(r)
    /\ \E t \in BasesOf(raw, r) :
          IF IsAggregate(r) THEN r.num = t.list /\ r.agree /\ MaxIs(r.max, Len(t.list))
                            ELSE r.num[1] # Blank

TierRecords(raw, kind, t) == {r \in ToSet(raw.trait) : KindOf(r) = kind /\ r.check = t.id}
TiersOf(raw, kind, t) == UNION {Tiers(r) : r \in TierRecords(raw, kind, t)}

(* The tiers in the order of their levels.                                 *)
ByLevel(tiers) == [l \in {x.level : x \in tiers} |-> CHOOSE x \in tiers : x.level = l]

(* Mutant: levels are counted and not compared with numList.               *)
HasTiersBug(raw, kind, t) ==
    LET tiers == TiersOf(raw, kind, t) IN
    /\ tiers # {}
    /\ \A r, q \in TierRecords(raw, kind, t) : r # q =>
          \A x \in Tiers(r), y \in Tiers(q) : x.level # y.level
    /\ {x.level : x \in tiers} = 1..Cardinality(tiers)
    /\ MaxIs(t.max, Cardinality(tiers))

(* No level twice, levels from 1 without a gap, and numList their counts.  *)
HasTiers(raw, kind, t) ==
    LET tiers == TiersOf(raw, kind, t) IN
    /\ tiers # {}
    /\ \A r, q \in TierRecords(raw, kind, t) : r # q =>
          \A x \in Tiers(r), y \in Tiers(q) : x.level # y.level
    /\ {x.level : x \in tiers} = 1..Cardinality(tiers)
    /\ MaxIs(t.max, Cardinality(tiers))
    /\ [l \in {x.level : x \in tiers} |-> ByLevel(tiers)[l].count] = t.list

(* The field of a hero with its traits of a kind.                          *)
Listed(h, kind) == IF kind = "job" THEN h.class ELSE h.species

IsHero(raw, h) ==
    /\ IsEntity(h)
    /\ \A kind \in Kinds :
          /\ Splits(Listed(h, kind))
          /\ ToSet(Relations(Listed(h, kind))) \subseteq IdsOf(raw[kind])

(* A missing component, an empty one and "0" are none.                     *)
Components(e) == {e.first, e.second} \ {0}

IsEquipment(raw, e) ==
    /\ IsEntity(e)
    /\ e.first = 0 <=> e.second = 0
    /\ Components(e) \subseteq IdsOf(raw.equip)

Accepts(raw) ==
    /\ \A kind \in Kinds, t \in ToSet(raw.race) \union ToSet(raw.job) :
          t \in ToSet(raw[kind]) => IsTrait(t) /\ HasTiers(raw, kind, t)
    /\ \A r \in ToSet(raw.trait) : IsTierRecord(raw, r)
    /\ \A h \in ToSet(raw.chess) : IsHero(raw, h)
    /\ \A e \in ToSet(raw.equip) : IsEquipment(raw, e)
    /\ \A e \in ToSet(raw.hex) \union ToSet(raw.galaxy) : IsEntity(e)
    /\ \A e \in ToSet(raw.adventure) : IsAdventure(e)

(* The relations of a hero, and the tables of entities and traits: traits  *)
(* are kept by kind and external id.                                       *)
HeroTraits(h, kind) ==
    LET listed == Relations(Listed(h, kind))
    IN  {[hero |-> h.id, trait |-> listed[p], kind |-> kind, position |-> p - 1]
            : p \in DOMAIN listed}

Entities(file) == [i \in DOMAIN file |-> [id |-> file[i].id, text |-> file[i].text]]

Traits(raw) == [t \in UNION {{kind} \X IdsOf(raw[kind]) : kind \in Kinds} |->
    LET base == CHOOSE e \in ToSet(raw[t[1]]) : e.id = t[2]
    IN  [text |-> base.text, tiers |-> ByLevel(TiersOf(raw, t[1], base))]]

Recipes(raw) == {[equipment |-> e.id, first |-> e.first, second |-> e.second]
                    : e \in {p \in ToSet(raw.equip) : Components(p) # {}}}

(* build_structured_snapshot                                               *)
Structured(raw) ==
    [entities |-> [f \in EntityFiles |-> Entities(raw[f])],
     traits |-> Traits(raw),
     heroTraits |-> UNION {HeroTraits(h, kind) : h \in ToSet(raw.chess), kind \in Kinds},
     recipes |-> Recipes(raw)]
-----------------------------------------------------------------------------
(* The import.                                                             *)

(* The rows of a snapshot in a table, and the id of one by its external id.*)
RowsOf(rows, s) == {i \in DOMAIN rows : rows[i].snapshot = s}
Row(rows, s, id) == CHOOSE i \in RowsOf(rows, s) : rows[i].id = id
TraitRow(rows, s, kind, id) ==
    CHOOSE i \in RowsOf(rows, s) : rows[i].kind = kind /\ rows[i].id = id

(* A table with the rows that were added to it.                            *)
With(rows, new) == [i \in DOMAIN rows \union DOMAIN new |->
    IF i \in DOMAIN rows THEN rows[i] ELSE new[i]]

(* The new rows: of a file, of the traits, of the tables that refer to     *)
(* them.  external ids are looked up among the rows of the snapshot.       *)
EntityRows(entities, s) ==
    [i \in {s} \X DOMAIN entities |->
        [snapshot |-> s, id |-> entities[i[2]].id, text |-> entities[i[2]].text]]

TraitRows(new, s) ==
    [i \in {s} \X DOMAIN new |->
        [snapshot |-> s, kind |-> i[2][1], id |-> i[2][2], text |-> new[i[2]].text]]

TierRows(new, traits, s) ==
    UNION {{[trait |-> TraitRow(traits, s, t[1], t[2]), level |-> l,
             count |-> new[t].tiers[l].count, text |-> new[t].tiers[l].text]
               : l \in DOMAIN new[t].tiers} : t \in DOMAIN new}

HeroTraitRows(new, heroes, traits, s) ==
    {[snapshot |-> s, hero |-> Row(heroes, s, r.hero),
      trait |-> TraitRow(traits, s, r.kind, r.trait), kind |-> r.kind, position |-> r.position]
        : r \in new}

RecipeRows(new, equipment, s) ==
    {[snapshot |-> s, equipment |-> Row(equipment, s, r.equipment),
      first |-> Row(equipment, s, r.first), second |-> Row(equipment, s, r.second)] : r \in new}

Inserted(raw) ==
    LET new == Structured(raw)
        s == Len(tables.snapshots) + 1
        entities == [f \in EntityFiles |->
            With(tables.entities[f], EntityRows(new.entities[f], s))]
        traits == With(tables.traits, TraitRows(new.traits, s))
    IN  [snapshots |-> Append(tables.snapshots, [f \in Files |-> ToSet(raw[f])]),
         entities |-> entities,
         traits |-> traits,
         tiers |-> tables.tiers \union TierRows(new.traits, traits, s),
         heroTraits |-> tables.heroTraits
             \union HeroTraitRows(new.heroTraits, entities.chess, traits, s),
         recipes |-> tables.recipes \union RecipeRows(new.recipes, entities.equip, s)]

(* The unique keys, and the widths of the columns.                         *)
Fits(t) ==
    /\ \A f \in EntityFiles : \A i, j \in DOMAIN t.entities[f] :
          LET a == t.entities[f][i]  b == t.entities[f][j]
          IN  a.snapshot = b.snapshot /\ a.id = b.id => i = j
    /\ \A i, j \in DOMAIN t.traits :
          LET a == t.traits[i]  b == t.traits[j]
          IN  a.snapshot = b.snapshot /\ a.kind = b.kind /\ a.id = b.id => i = j
    /\ \A a, b \in t.tiers : a.trait = b.trait /\ a.level = b.level => a = b
    /\ \A a, b \in t.heroTraits :
          a.snapshot = b.snapshot /\ a.hero = b.hero /\ a.trait = b.trait => a = b
    /\ \A a, b \in t.recipes :
          a.snapshot = b.snapshot /\ a.equipment = b.equipment => a = b
    /\ \A f \in EntityFiles : \A i \in DOMAIN t.entities[f] : t.entities[f][i].text # "wide"
    /\ \A i \in DOMAIN t.traits : t.traits[i].text # "wide"
    /\ \A a \in t.tiers : a.text # "wide"

(* canonical_hash sorts the keys of the files.                             *)
Existing(raw) == {s \in DOMAIN tables.snapshots :
    tables.snapshots[s] = [f \in Files |-> ToSet(raw[f])]}

ExpectedTiers(new) ==
    Cardinality(UNION {{t} \X DOMAIN new.traits[t].tiers : t \in DOMAIN new.traits})

(* _snapshot_is_complete: the tables hold as many rows as are expected.    *)
IsComplete(s, new) ==
    /\ \A f \in EntityFiles :
          Cardinality(RowsOf(tables.entities[f], s)) = Len(new.entities[f])
    /\ Cardinality(RowsOf(tables.traits, s)) = Cardinality(DOMAIN new.traits)
    /\ Cardinality({r \in tables.heroTraits : r.snapshot = s}) = Cardinality(new.heroTraits)
    /\ Cardinality({r \in tables.recipes : r.snapshot = s}) = Cardinality(new.recipes)
    /\ Cardinality({r \in tables.tiers : r.trait \in RowsOf(tables.traits, s)})
          = ExpectedTiers(new)

Ends(how) == Len(outcome) < MaxImports /\ outcome' = Append(outcome, how)

(* The files are read, converted and imported; SnapshotSync has the steps  *)
(* in between.                                                             *)
Rejected(raw) ==
    /\ ~Accepts(raw)
    /\ Ends("rejected")
    /\ UNCHANGED <<source, tables, current>>

Known(raw) ==
    /\ Accepts(raw)
    /\ \E s \in Existing(raw) :
          IF IsComplete(s, Structured(raw))
            THEN current' = s /\ Ends(IF current = s THEN "skipped" ELSE "matched")
            ELSE Ends("incomplete") /\ UNCHANGED current
    /\ UNCHANGED <<source, tables>>

New(raw) ==
    /\ Accepts(raw)
    /\ Existing(raw) = {}
    /\ IF Fits(Inserted(raw))
         THEN /\ tables' = Inserted(raw)
              /\ current' = Len(tables.snapshots) + 1
              /\ Ends("updated")
         ELSE Ends("refused") /\ UNCHANGED <<tables, current>>
    /\ UNCHANGED source
-----------------------------------------------------------------------------
(* What the endpoints of api/jcc.py answer of a snapshot.                  *)

(* By the length of the external id, then the id: numbers by their value.  *)
ById(items) == InOrder(items, "id")

(* The traits of a hero of one kind, by position.                          *)
TraitsOfHero(s, hero, kind) ==
    LET rows == InOrder({r \in tables.heroTraits :
                            r.snapshot = s /\ r.hero = hero /\ r.kind = kind}, "position")
    IN  [p \in DOMAIN rows |-> tables.traits[rows[p].trait].id]

HeroItems(s) == ById(
    {[id |-> tables.entities.chess[i].id, text |-> tables.entities.chess[i].text,
      traits |-> TraitsOfHero(s, i, "race"), classes |-> TraitsOfHero(s, i, "job")]
        : i \in RowsOf(tables.entities.chess, s)})

(* ?trait_id= and ?class_id=                                               *)
HeroesWith(s, kind, id) == {tables.entities.chess[i].id :
    i \in {j \in RowsOf(tables.entities.chess, s) : \E r \in tables.heroTraits :
        /\ r.snapshot = s /\ r.hero = j /\ r.kind = kind
        /\ tables.traits[r.trait].kind = kind /\ tables.traits[r.trait].id = id}}

TierItems(trait) ==
    LET rows == InOrder({r \in tables.tiers : r.trait = trait}, "level")
    IN  [l \in DOMAIN rows |-> rows[l].count]

TraitItems(s, kind) == ById(
    {[id |-> tables.traits[i].id, text |-> tables.traits[i].text, tiers |-> TierItems(i)]
        : i \in {j \in RowsOf(tables.traits, s) : tables.traits[j].kind = kind}})

ComponentItems(s, equipment) ==
    LET recipe == {r \in tables.recipes : r.snapshot = s /\ r.equipment = equipment}
        made == CHOOSE r \in recipe : TRUE
    IN  IF recipe = {} THEN <<>>
        ELSE <<tables.entities.equip[made.first].id, tables.entities.equip[made.second].id>>

EquipmentItems(s) == ById(
    {[id |-> tables.entities.equip[i].id, text |-> tables.entities.equip[i].text,
      components |-> ComponentItems(s, i)] : i \in RowsOf(tables.entities.equip, s)})

SimpleItems(s, f) == ById(
    {[id |-> tables.entities[f][i].id, text |-> tables.entities[f][i].text]
        : i \in RowsOf(tables.entities[f], s)})
-----------------------------------------------------------------------------
(* The origin may write a file in any order.                               *)
Reordered(raw) == [f \in Files |-> Reverse(raw[f])]

NoRows == [snapshots |-> <<>>, entities |-> [f \in EntityFiles |-> <<>>], traits |-> <<>>,
           tiers |-> {}, heroTraits |-> {}, recipes |-> {}]

Init ==
    /\ source \in Sources
    /\ tables = NoRows
    /\ current = 0
    /\ outcome = <<>>

Next == \E raw \in {source, Reordered(source), Base} :
    Rejected(raw) \/ Known(raw) \/ New(raw)

Spec == Init /\ [][Next]_vars
-----------------------------------------------------------------------------
(* Properties.                                                             *)

(* Served(raw): what a reader of raw itself would expect, in the words of  *)
(* the source and not by way of the conversion: a hero has those of the    *)
(* listed traits that exist, in the order of its list; the tiers of a      *)
(* trait are its numList; equipment is made of two pieces or of none.      *)
Among(list, file) == Pick(list, {p \in DOMAIN list : list[p] \in IdsOf(file)})

Served(raw) ==
    [heroes |-> ById({[id |-> h.id, text |-> h.text,
                       traits |-> Among(h.species, raw.race), classes |-> Among(h.class, raw.job)]
                          : h \in ToSet(raw.chess)}),
     traits |-> [kind \in Kinds |->
         ById({[id |-> t.id, text |-> t.text, tiers |-> t.list] : t \in ToSet(raw[kind])})],
     with |-> [kind \in Kinds |-> [id \in IdsOf(raw[kind]) |->
         {h.id : h \in {g \in ToSet(raw.chess) :
                           id \in ToSet(IF kind = "job" THEN g.class ELSE g.species)}}]],
     equipment |-> ById({[id |-> e.id, text |-> e.text,
                          components |-> IF e.first = 0 THEN <<>> ELSE <<e.first, e.second>>]
                             : e \in ToSet(raw.equip)}),
     simple |-> [f \in Simple |-> ById({[id |-> e.id, text |-> e.text] : e \in ToSet(raw[f])})]]

View(s, raw) ==
    [heroes |-> HeroItems(s),
     traits |-> [kind \in Kinds |-> TraitItems(s, kind)],
     with |-> [kind \in Kinds |-> [id \in IdsOf(raw[kind]) |-> HeroesWith(s, kind, id)]],
     equipment |-> EquipmentItems(s),
     simple |-> [f \in Simple |-> SimpleItems(s, f)]]

(* Readers get what the files say, whatever the order of the files and     *)
(* whichever snapshots are in the tables beside it: ids of the two kinds   *)
(* of traits coincide, relations go through row ids, and the recipes,      *)
(* tiers and relations of a snapshot are those of its own rows.            *)
ReadersGetTheSource == \A raw \in {source, Base} : \A s \in Existing(raw) :
    View(s, raw) = Served(raw)

(* What the adapters accept can be imported, and is found complete when it *)
(* is imported again, in whichever order the files come then.  Two things  *)
(* they do not look at remain: the width of a column, and adventureId,     *)
(* which two records may share.                                            *)
AcceptedIsImported ==
    /\ \A i \in DOMAIN outcome : outcome[i] # "incomplete"
    /\ "refused" \in ToSet(outcome) => \E raw \in {source, Base} :
          \/ \E f \in Files : \E e \in ToSet(raw[f]) : e.text = "wide"
          \/ Cardinality(IdsOf(raw.adventure)) < Len(raw.adventure)
=============================================================================
