-------------------------- MODULE MCStructuredData --------------------------
(***************************************************************************)
(* Sources for StructuredData: one that is accepted, and variants of one   *)
(* file, or of a base trait and its tier records together.                 *)
(***************************************************************************)
EXTENDS StructuredData

Trait(id, list, max) == [key |-> id, id |-> id, list |-> list, max |-> max, text |-> "good"]
Record(key, check, type, level, num) ==
    [key |-> key, id |-> key, check |-> check, type |-> type, level |-> level, num |-> num,
     agree |-> TRUE, max |-> 0, text |-> "good"]
Hero(id, class, species) ==
    [key |-> id, id |-> id, class |-> class, species |-> species, text |-> "good"]
Equip(id, first, second) ==
    [key |-> id, id |-> id, first |-> first, second |-> second, text |-> "good"]
Plain(key, id) == [key |-> key, id |-> id, text |-> "good"]

(* Race 1 and job 1 share an id; hero 2 has no class; equipment 4 needs    *)
(* the same piece twice.                                                   *)
Good == [
    race |-> <<Trait(1, <<2, 4>>, 2), Trait(2, <<1>>, 0)>>,
    job |-> <<Trait(1, <<3>>, 1), Trait(3, <<1, 2>>, 0)>>,
    trait |-> <<Record(11, 1, 0, 2, <<4>>), Record(12, 1, 0, 1, <<2>>), Record(21, 2, 0, 1, <<1>>),
                Record(31, 1, 1, 1, <<3>>), Record(33, 3, 1, 0, <<1, 2>>)>>,
    chess |-> <<Hero(2, <<0>>, <<-1, 1>>), Hero(1, <<3, 1>>, <<2, 1>>)>>,
    equip |-> <<Equip(3, 2, 1), Equip(1, 0, 0), Equip(2, 0, 0), Equip(4, 1, 1)>>,
    hex |-> <<Plain(1, 1), Plain(2, 2)>>,
    adventure |-> <<Plain(1, 1), Plain(2, 2)>>,
    galaxy |-> <<Plain(1, 1)>>]

(* The other revision has the same ids with other relations.               *)
MCBase == [Good EXCEPT !.chess = <<Hero(1, <<1>>, <<1, 2>>)>>,
                       !.equip = <<Equip(1, 0, 0), Equip(2, 1, 1)>>,
                       !.galaxy = <<>>]

Lists == {<<2, 4>>, <<4, 2>>, <<2, 2>>, <<2, Blank>>, <<2>>, <<2, 4, 6>>}

(* The records of race 1: one or two of these.                             *)
Pool(key) ==
    {Record(key, 1, 0, level, <<num>>) : level \in 0..3, num \in {2, 4}}
    \union {[Record(key, 1, 0, 0, num) EXCEPT !.max = max, !.agree = agree]
              : num \in {<<2, 4>>, <<4, 2>>}, max \in {0, 2, 3}, agree \in BOOLEAN}
    \union {Record(key, 9, 0, 1, <<2>>), Record(key, 1, 2, 1, <<2>>), Record(key, 1, 1, 2, <<2>>)}

Rest == SubSeq(Good.trait, 3, 5)

TraitSources ==
    {[Good EXCEPT !.race[1].list = list, !.race[1].max = max, !.trait = <<r>> \o Rest]
        : list \in Lists, max \in {0, 1, 2}, r \in Pool(11)}
    \union {[Good EXCEPT !.race[1].list = list, !.trait = <<r, q>> \o Rest]
        : list \in {<<2, 4>>, <<4, 2>>}, r \in Pool(11), q \in Pool(12)}

Tokens == {Blank, -1, 0, 1, 2, 9}
Parts == {<<p>> : p \in Tokens} \union (Tokens \X Tokens)

HeroSources == {[Good EXCEPT !.chess[1].class = class, !.chess[1].species = species]
                    : class \in Parts, species \in Parts}

EquipSources == {[Good EXCEPT !.equip[1].first = first, !.equip[1].second = second]
                    : first \in {-1, 0, 1, 2, 3, 9}, second \in {-1, 0, 1, 2, 3, 9}}

EntitySources ==
    {[Good EXCEPT ![f][1].key = key, ![f][1].id = id, ![f][1].text = text]
        : f \in Files, key \in {-1, 0, 1, 2, 11}, id \in {-1, 0, 1, 2, 11},
          text \in {"good", "bad", "wide"}}

(* Keys are unique in a file.                                              *)
MCSources == {raw \in {Good} \union TraitSources \union HeroSources \union EquipSources
                      \union EntitySources :
                 \A f \in Files : IsInjective([i \in DOMAIN raw[f] |-> raw[f][i].key])}
=============================================================================
