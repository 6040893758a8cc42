------------------------------- MODULE PcStats -------------------------------
(***************************************************************************)
(* The numbers on the page of a PC (PcStatsCalculator), as operators on a  *)
(* sheet: its four dice, its jobs and the items in its four hands.         *)
(*                                                                         *)
(* A die is its number of sides, 0 when it is null.  The text columns of   *)
(* an item are what the code reads in them, a pair: <<"number", n>>, for   *)
(* the dice of a defense <<"attribute", a>> as well, or <<"other", 0>> for *)
(* any text that it throws on.  A null column reads as 0.  Numbers are     *)
(* whole: a text like "1.5", which Number() reads as well, is left out.    *)
(***************************************************************************)
EXTENDS Integers, Sequences

Attributes  == {"DES", "AST", "VIG", "VON"}
Permissions == {"martial_armor", "martial_shield", "martial_ranged_weapon",
                "martial_melee_weapon", "arcane", "rituals", "monster_spells", "projects"}

\* What a column, a row of items, a job of a PC and a sheet may hold.
Modifiers == ({"number"} \X Int) \cup {<<"other", 0>>}
Dice      == Modifiers \cup ({"attribute"} \X Attributes)

ItemTypes == {"arma", "armadura", "escudo", "acessorio", "artefato", "outros"}
ItemRecords ==
    [item_type : ItemTypes \cup {"none"}, defense_dice : Dice, defense_bonus : Int,
     magic_defense_dice : Dice, magic_defense_bonus : Int, initiative : Modifiers]

JobRecords ==
    [level : Int, hp_bonus : Int, mp_bonus : Int, ip_bonus : Int,
     ignore_hp_bonus : BOOLEAN, ignore_mp_bonus : BOOLEAN, allows : SUBSET Permissions]

SheetRecords ==
    [dexterity_die : Int, insight_die : Int, might_die : Int, willpower_die : Int,
     jobs : Seq(JobRecords), main_hand : ItemRecords, off_hand : ItemRecords,
     armor : ItemRecords, accessory : ItemRecords]

\* An empty hand.
NoItem ==
    [item_type |-> "none", defense_dice |-> <<"number", 0>>, defense_bonus |-> 0,
     magic_defense_dice |-> <<"number", 0>>, magic_defense_bonus |-> 0,
     initiative |-> <<"number", 0>>]

IsItem(hand) == hand.item_type # "none"

----------------------------------------------------------------------------
(* calculateCapacities *)

\* The page has put 0 for a bonus that the PC ignores.
HpBonus(job) == IF job.ignore_hp_bonus THEN 0 ELSE job.hp_bonus
MpBonus(job) == IF job.ignore_mp_bonus THEN 0 ELSE job.mp_bonus

NoCapacities == [hp_bonus |-> 0, mp_bonus |-> 0, ip_bonus |-> 0, allows |-> {}]

AddJobForgetting(total, job) ==
    [hp_bonus |-> total.hp_bonus + HpBonus(job), mp_bonus |-> total.mp_bonus + MpBonus(job),
     ip_bonus |-> total.ip_bonus + job.ip_bonus, allows |-> job.allows]
AddJob(total, job) ==
    [hp_bonus |-> total.hp_bonus + HpBonus(job), mp_bonus |-> total.mp_bonus + MpBonus(job),
     ip_bonus |-> total.ip_bonus + job.ip_bonus, allows |-> total.allows \cup job.allows]

\* The total of reduce, after i jobs.
CapacitiesAfter(jobs) ==
    LET after[i \in 0..Len(jobs)] ==
            IF i = 0 THEN NoCapacities ELSE AddJob(after[i - 1], jobs[i])
    IN  after

Capacities(jobs) == CapacitiesAfter(jobs)[Len(jobs)]

----------------------------------------------------------------------------
(* calculateStats *)

Die(sheet, attribute) ==
    CASE attribute = "DES" -> sheet.dexterity_die
      [] attribute = "AST" -> sheet.insight_die
      [] attribute = "VIG" -> sheet.might_die
      [] attribute = "VON" -> sheet.willpower_die

\* The sums over what is equipped: an empty hand adds nothing.
DefenseBonus(sheet) ==
    sheet.main_hand.defense_bonus + sheet.off_hand.defense_bonus
    + sheet.armor.defense_bonus + sheet.accessory.defense_bonus
MagicDefenseBonus(sheet) ==
    sheet.main_hand.magic_defense_bonus + sheet.off_hand.magic_defense_bonus
    + sheet.armor.magic_defense_bonus + sheet.accessory.magic_defense_bonus

\* A shield counts in the other hand only.
Shield(sheet) == IF sheet.off_hand.item_type = "escudo" THEN sheet.off_hand ELSE NoItem

DiceValue(dice, sheet) == IF dice[1] = "attribute" THEN Die(sheet, dice[2]) ELSE dice[2]

\* resolveDefenseDiceValue and parseModifier throw otherwise: there is no page.
Readable(sheet) ==
    /\ sheet.armor.defense_dice[1] # "other" /\ sheet.armor.magic_defense_dice[1] # "other"
    /\ sheet.armor.initiative[1] # "other" /\ Shield(sheet).initiative[1] # "other"

LevelAfter(jobs) ==
    LET after[i \in 0..Len(jobs)] == IF i = 0 THEN 0 ELSE after[i - 1] + jobs[i].level
    IN  after

Level(jobs) == LevelAfter(jobs)[Len(jobs)]

Defense(sheet) ==
    (IF IsItem(sheet.armor) THEN DiceValue(sheet.armor.defense_dice, sheet)
                            ELSE sheet.dexterity_die)
    + DefenseBonus(sheet)

MagicDefense(sheet) ==
    (IF IsItem(sheet.armor) THEN DiceValue(sheet.armor.magic_defense_dice, sheet)
                            ELSE sheet.insight_die)
    + MagicDefenseBonus(sheet)

Stats(sheet) ==
    LET level == Level(sheet.jobs)  capacities == Capacities(sheet.jobs)
    IN  [level |-> level,
         hp |-> level + 5 * sheet.might_die + capacities.hp_bonus,
         mp |-> level + 5 * sheet.willpower_die + capacities.mp_bonus,
         ip |-> 6 + capacities.ip_bonus,
         initiative |-> sheet.armor.initiative[2] + Shield(sheet).initiative[2],
         defense |-> Defense(sheet),
         magic_defense |-> MagicDefense(sheet)]
==============================================================================
