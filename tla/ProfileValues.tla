---------------------------- MODULE ProfileValues ----------------------------
(***************************************************************************)
(* Where the numbers of a profile go: from the forms and the catalogue     *)
(* into the columns of a revision (api/routes.ts, api/routes-extra.ts,     *)
(* db/import-ofd-starter-profiles.ts), on to the next revision, to a fork, *)
(* through the canonical document (canonical-profile/from-revision.ts)     *)
(* into the presets of four slicers (slicer-*/convert.ts), and back.       *)
(*                                                                         *)
(* A document is a function from the names it has numbers for; what it     *)
(* does not know it has no name for, which is the code's null.  A number   *)
(* is told apart by the name under which somebody measured it: that is all *)
(* one needs to see two of them exchanged or one lost.                     *)
(***************************************************************************)
EXTENDS Naturals, Sequences, SequencesExt, Functions

CONSTANTS
    Bodies,            \* the sets of numbers somebody may send
    MaxRevised,        \* bound on the revisions, forks and imports
    NoFile             \* nothing was exported

Nozzle == {"nozzleTempFirstLayerC", "nozzleTempOtherLayersC", "nozzleTempMinC",
           "nozzleTempMaxC"}
Bed == {"bedTempFirstLayerC", "bedTempOtherLayersC"}

\* The ten that every way of copying a revision knows, but imports.
Common == {"nozzleTempFirstLayerC", "nozzleTempOtherLayersC",
           "bedTempFirstLayerC", "bedTempOtherLayersC", "flowRatio",
           "pressureAdvance", "maxVolumetricFlowMm3s", "fanMinPercent",
           "fanMaxPercent", "retractionDistanceMm"}
Shrinkage == {"shrinkagePercentXy", "shrinkagePercentZ"}

CreateColumns == Common \cup Shrinkage \cup Nozzle \cup {"chamberTempC"}
SubmitColumns == CreateColumns \cup
    {"minVolumetricFlowMm3s", "bridgeFanPercent", "fanDisableFirstLayers",
     "retractionSpeedMms"}
ReviseColumns == Common \cup Shrinkage \cup {"chamberTempC"}
ForkColumns == Common
ImportColumns == Common \ {"fanMinPercent", "fanMaxPercent", "retractionDistanceMm"}

\* What the preset for a spool read from its tag is made of.
MatchColumns == Common \cup {"chamberTempC", "bridgeFanPercent",
                             "fanDisableFirstLayers", "retractionSpeedMms"}

ASSUME ValueParameters ==
    /\ Bodies \subseteq SUBSET SubmitColumns /\ MaxRevised \in Nat

VARIABLES
    columns,           \* of the current revision
    given,             \* the names somebody gave its numbers under
    preset,            \* a preset or document that was exported
    revised            \* revisions, forks and imports

valueVars == <<columns, given, preset, revised>>
-----------------------------------------------------------------------------
\* What the first has, and what only the second has: the code's a ?? b.
FilledFrom(f, g) == [x \in DOMAIN f \cup DOMAIN g |-> IF x \in DOMAIN f THEN f[x] ELSE g[x]]

Of(names) == [f \in names |-> f]
Kept(doc, names) == Restrict(doc, names \cap DOMAIN doc)

\* Every name of the table with the first of its sources that the document has.
Convert(table, doc) ==
    LET Sources(k) == {i \in DOMAIN table[k] : table[k][i] \in DOMAIN doc}
    IN [k \in {k \in DOMAIN table : Sources(k) # {}} |-> doc[table[k][Min(Sources(k))]]]

(* Into a revision. *)

\* The community's form asks for a range, a bed temperature and whether the
\* chamber was heated; what is not measured by layers is taken from these.
SubmitDefaults == [
    nozzleTempFirstLayerC  |-> <<"nozzleTempFirstLayerC", "nozzleTempMaxC">>,
    nozzleTempOtherLayersC |-> <<"nozzleTempOtherLayersC", "midNozzle">>,
    bedTempFirstLayerC     |-> <<"bedTempFirstLayerC", "bedTempC">>,
    bedTempOtherLayersC    |-> <<"bedTempOtherLayersC", "bedTempC">>]

Submitted(names, heated) ==
    LET body == Of(names \cup {"nozzleTempMinC", "nozzleTempMaxC", "midNozzle",
                               "bedTempC", "chamberTempC"})
        dropped == IF heated THEN {} ELSE {"chamberTempC"}
    IN FilledFrom(Convert(SubmitDefaults, body), Kept(body, SubmitColumns \ dropped))

\* Mutant of Revised: what is sent comes second.
Revised_LatestFirst(names, latest) ==
    FilledFrom(Kept(latest, ReviseColumns), Kept(Of(names), ReviseColumns))

\* A revision keeps what is not sent; so nothing can be taken back.
Revised(names, latest) ==
    FilledFrom(Kept(Of(names), ReviseColumns), Kept(latest, ReviseColumns))

\* A product of the catalogue whose manufacturer names a range for the nozzle and
\* one for the bed, or one end of it.
StarterRow == [
    nozzleTempFirstLayerC  |-> <<"midNozzle", "nozzleTempMinC", "nozzleTempMaxC">>,
    nozzleTempOtherLayersC |-> <<"midNozzle", "nozzleTempMinC", "nozzleTempMaxC">>,
    nozzleTempMinC         |-> <<"nozzleTempMinC">>,
    nozzleTempMaxC         |-> <<"nozzleTempMaxC">>,
    bedTempFirstLayerC     |-> <<"midBed", "bedTempMinC", "bedTempMaxC">>,
    bedTempOtherLayersC    |-> <<"midBed", "bedTempMinC", "bedTempMaxC">>,
    chamberTempC           |-> <<"chamberTempC">>]

Known(names) ==
    Of(names \cup (IF {"nozzleTempMinC", "nozzleTempMaxC"} \subseteq names
                   THEN {"midNozzle"} ELSE {})
             \cup (IF {"bedTempMinC", "bedTempMaxC"} \subseteq names
                   THEN {"midBed"} ELSE {}))

\* What the template of a printer's class knows: of an unknown printer little, of
\* an enclosed one for ABS all of it.
Templates == {{"flowRatio"},
              {"flowRatio", "maxVolumetricFlowMm3s", "chamberTempC", "fanMinPercent",
               "fanMaxPercent", "retractionDistanceMm", "retractionSpeedMms"}}

\* Without a revision a preset is calculated from the same product and a template,
\* with something for every temperature of a layer.
StarterDocument(names, template) ==
    LET temps == Convert(StarterRow, Known(names))
        default == FilledFrom([f \in Nozzle \ {"nozzleTempMinC", "nozzleTempMaxC"} |-> "defaultNozzle"],
                          [f \in Bed |-> "defaultBed"])
    IN FilledFrom(temps, FilledFrom(default, Of(template)))

(* Into a preset.  A key that is not there leaves the slicer's inherited value. *)

\* What the three presets of Orca's family have in common.
FamilyKeys == [
    nozzle_temperature               |-> <<"nozzleTempOtherLayersC", "nozzleTempFirstLayerC">>,
    nozzle_temperature_initial_layer |-> <<"nozzleTempFirstLayerC">>,
    hot_plate_temp                   |-> <<"bedTempOtherLayersC", "bedTempFirstLayerC">>,
    textured_plate_temp              |-> <<"bedTempOtherLayersC", "bedTempFirstLayerC">>,
    hot_plate_temp_initial_layer     |-> <<"bedTempFirstLayerC">>,
    chamber_temperature              |-> <<"chamberTempC">>,
    filament_max_volumetric_speed    |-> <<"maxVolumetricFlowMm3s">>,
    filament_flow_ratio              |-> <<"flowRatio">>,
    pressure_advance                 |-> <<"pressureAdvance">>,
    fan_min_speed                    |-> <<"fanMinPercent">>,
    fan_max_speed                    |-> <<"fanMaxPercent">>,
    close_fan_the_first_x_layers     |-> <<"fanDisableFirstLayers">>,
    filament_retraction_length       |-> <<"retractionDistanceMm">>,
    filament_shrinkage               |-> <<"shrinkagePercentXy">>,
    shrinkage_z                      |-> <<"shrinkagePercentZ">>]

CrealityKeys == FilledFrom(FamilyKeys, [
    nozzle_temperature_range_low      |-> <<"nozzleTempMinC">>,
    nozzle_temperature_range_high     |-> <<"nozzleTempMaxC">>,
    textured_plate_temp_initial_layer |-> <<"bedTempFirstLayerC">>,
    bridge_fan_speed                  |-> <<"bridgeFanPercent">>,
    filament_retraction_speed         |-> <<"retractionSpeedMms">>,
    shrinkage                         |-> <<"shrinkagePercentXy">>])

OrcaKeys == FilledFrom(FamilyKeys, [
    filament_retraction_speed |-> <<"retractionSpeedMms">>,
    shrinkage_xy              |-> <<"shrinkagePercentXy">>])

BambuKeys == FilledFrom(FamilyKeys, [
    eng_plate_temp |-> <<"bedTempOtherLayersC", "bedTempFirstLayerC">>,
    shrinkage      |-> <<"shrinkagePercentXy">>])

\* The last six are comments and notes: the slicer does not act on them.
PrusaKeys == [
    temperature                   |-> <<"nozzleTempOtherLayersC", "nozzleTempFirstLayerC">>,
    first_layer_temperature       |-> <<"nozzleTempFirstLayerC", "nozzleTempOtherLayersC">>,
    bed_temperature               |-> <<"bedTempOtherLayersC", "bedTempFirstLayerC">>,
    first_layer_bed_temperature   |-> <<"bedTempFirstLayerC", "bedTempOtherLayersC">>,
    extrusion_multiplier          |-> <<"flowRatio">>,
    filament_max_volumetric_speed |-> <<"maxVolumetricFlowMm3s">>,
    min_fan_speed                 |-> <<"fanMinPercent">>,
    max_fan_speed                 |-> <<"fanMaxPercent">>,
    disable_fan_first_layers      |-> <<"fanDisableFirstLayers">>,
    start_filament_gcode          |-> <<"pressureAdvance">>,
    retraction_length_hint        |-> <<"retractionDistanceMm">>,
    filament_shrinkage_xy_hint    |-> <<"shrinkagePercentXy">>,
    filament_shrinkage_z_hint     |-> <<"shrinkagePercentZ">>,
    chamber_temperature_hint      |-> <<"chamberTempC">>]

Keys == [creality |-> CrealityKeys, orca |-> OrcaKeys, bambu |-> BambuKeys,
         prusaslicer |-> PrusaKeys]

\* The mapper reads more, but a draft is made of these.
CrealityReads == [
    nozzleTempOtherLayersC |-> <<"nozzle_temperature">>,
    nozzleTempFirstLayerC  |-> <<"nozzle_temperature_initial_layer">>,
    bedTempOtherLayersC    |-> <<"textured_plate_temp", "hot_plate_temp">>,
    bedTempFirstLayerC     |-> <<"textured_plate_temp_initial_layer",
                                 "hot_plate_temp_initial_layer">>,
    flowRatio              |-> <<"filament_flow_ratio">>,
    pressureAdvance        |-> <<"pressure_advance">>,
    maxVolumetricFlowMm3s  |-> <<"filament_max_volumetric_speed">>]
-----------------------------------------------------------------------------
New(doc, names) ==
    /\ columns' = doc
    /\ given' = names \cap DOMAIN doc

CreateValues(names) ==
    /\ columns = << >> /\ New(Kept(Of(names), CreateColumns), names)
    /\ UNCHANGED <<preset, revised>>

SubmitValues(names, heated) ==
    /\ columns = << >>
    /\ New(Submitted(names, heated),
           names \cup {"nozzleTempMinC", "nozzleTempMaxC", "chamberTempC"})
    /\ UNCHANGED <<preset, revised>>

ImportStarter(names) ==
    /\ columns = << >>
    /\ names \cap Nozzle # {} /\ names \cap {"bedTempMinC", "bedTempMaxC"} # {}
    /\ New(Convert(StarterRow, Known(names)), names)
    /\ UNCHANGED <<preset, revised>>

Successor(doc, names) ==
    /\ revised < MaxRevised /\ revised' = revised + 1
    /\ New(doc, names)
    /\ UNCHANGED preset

\* A profile without a number looks like none.
ReviseValues(names) == Successor(Revised(names, columns), given \cup names)

ForkValues == Successor(Kept(columns, ForkColumns), given)

ImportFile ==
    /\ preset # NoFile
    /\ \/ preset.for = "creality" /\ Successor(Convert(CrealityReads, preset.doc), preset.given)
       \/ preset.for = "openfilamentprofile"
          /\ Successor(Kept(preset.doc, ImportColumns), preset.given)

Save(slicer, doc, names) ==
    /\ preset' = [for |-> slicer, given |-> names,
                doc |-> IF slicer = "openfilamentprofile" THEN doc
                        ELSE Convert(Keys[slicer], doc)]
    /\ UNCHANGED <<columns, given, revised>>

Outputs == DOMAIN Keys \cup {"openfilamentprofile"}

ExportProfile(slicer) == Save(slicer, columns, given)
ExportMatched == Save("creality", Kept(columns, MatchColumns), given)
ExportStarter(slicer, names) ==
    \E template \in Templates : Save(slicer, StarterDocument(names, template), names)

\* What a manufacturer may state.
Statements == {{}, {"nozzleTempMinC", "bedTempMaxC"},
               {"nozzleTempMinC", "nozzleTempMaxC", "bedTempMinC", "bedTempMaxC"},
               {"nozzleTempMaxC", "bedTempMinC", "chamberTempC"}}

ValuesInit == columns = << >> /\ given = {} /\ preset = NoFile /\ revised = 0

ValuesNext ==
    \/ \E names \in Bodies :
          \/ CreateValues(names) \/ ReviseValues(names)
          \/ \E heated \in BOOLEAN : SubmitValues(names, heated)
    \/ \E names \in Statements :
          ImportStarter(names) \/ \E slicer \in Outputs : ExportStarter(slicer, names)
    \/ ForkValues \/ ImportFile \/ ExportMatched
    \/ \E slicer \in Outputs : ExportProfile(slicer)

ValuesSpec == ValuesInit /\ [][ValuesNext]_valueVars
-----------------------------------------------------------------------------
(* What must hold.                                                         *)

\* What the slicers and the columns mean by their names.
Meaning(name) ==
    IF name \in DOMAIN CrealityReads \cup SubmitColumns THEN name
    ELSE Head(FilledFrom(CrealityKeys, FilledFrom(OrcaKeys, FilledFrom(BambuKeys, PrusaKeys)))[name])

SameQuantity(a, b) ==
    \/ a = b
    \/ {a, b} \subseteq Nozzle \cup {"midNozzle", "defaultNozzle"}
    \/ {a, b} \subseteq Bed \cup {"bedTempC", "midBed", "bedTempMinC", "bedTempMaxC",
                                  "defaultBed"}

OwnIn(doc, names) ==
    \A k \in DOMAIN doc :
        IF Meaning(k) \in names THEN doc[k] = Meaning(k)
        ELSE SameQuantity(doc[k], Meaning(k))

\* Through forms, revisions, forks, presets and imports, a number that somebody
\* gave is shown under its own name, and no default takes its place; a default is
\* a number of the same kind.
ValuesAreTheirOwn ==
    /\ OwnIn(columns, given)
    /\ preset # NoFile => OwnIn(preset.doc, preset.given)

\* The numbers a draft is made of survive a preset: who exports a profile for
\* Creality Print and imports it again has lost none of them, in whatever order
\* revisions, forks and imports came before.
PresetsComeBack ==
    LET back == Convert(CrealityReads, Convert(CrealityKeys, columns))
    IN \A f \in ImportColumns \cap DOMAIN columns :
           f \in DOMAIN back /\ back[f] = columns[f]

\* Both: what people give keeps its name, and what a preset is made of comes back from it.
ValuesAreSound == ValuesAreTheirOwn /\ PresetsComeBack
=============================================================================
