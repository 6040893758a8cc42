------------------------------ MODULE MCPages ------------------------------
(* Instances of PcPages for TLC. *)
EXTENDS PcPages, TLC

Fighter == [level |-> 2, hp_bonus |-> 5, mp_bonus |-> 0, ip_bonus |-> 0,
            ignore_hp_bonus |-> FALSE, ignore_mp_bonus |-> FALSE,
            allows |-> {"martial_armor", "martial_shield"}]
Arcanist == [level |-> 3, hp_bonus |-> 5, mp_bonus |-> 5, ip_bonus |-> 2,
             ignore_hp_bonus |-> TRUE, ignore_mp_bonus |-> FALSE,
             allows |-> {"arcane", "rituals"}]

Plate  == [NoItem EXCEPT !.item_type = "armadura", !.defense_dice = <<"number", 11>>,
                         !.magic_defense_dice = <<"attribute", "AST">>,
                         !.initiative = <<"number", -3>>]
Robe   == [NoItem EXCEPT !.item_type = "armadura", !.defense_bonus = 1,
                         !.defense_dice = <<"attribute", "DES">>]
Torn   == [Robe EXCEPT !.defense_dice = <<"other", 0>>]
Buckler == [NoItem EXCEPT !.item_type = "escudo", !.defense_bonus = 2,
                          !.initiative = <<"number", -1>>]
Cursed == [Buckler EXCEPT !.initiative = <<"other", 0>>]
Ring   == [NoItem EXCEPT !.item_type = "acessorio", !.magic_defense_bonus = 2]

Bare == [dexterity_die |-> 8, insight_die |-> 10, might_die |-> 6, willpower_die |-> 0,
         jobs |-> <<Fighter, Arcanist>>, main_hand |-> NoItem, off_hand |-> NoItem,
         armor |-> NoItem, accessory |-> NoItem]

ArmorRows == {Robe, Torn}

\* Ways to hold these items, and three lists of jobs.
SomeSheets ==
    {[Bare EXCEPT !.jobs = j, !.main_hand = h, !.off_hand = o, !.armor = a, !.accessory = Ring] :
        j \in {<<>>, <<Fighter, Arcanist>>, <<Arcanist, Fighter, Fighter>>},
        h \in {NoItem, Buckler}, o \in {NoItem, Buckler, Cursed},
        a \in {NoItem, Plate, Robe, Torn}}

Symmetry == Permutations(Users) \cup Permutations(Pcs) \cup Permutations(Campaigns)
=============================================================================
