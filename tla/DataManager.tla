----------------------------- MODULE DataManager -----------------------------
(***************************************************************************)
(* The data a field device keeps (DataManager.hpp, DataStore.hpp): the     *)
(* external points the simulation provider owns, the device's internal     *)
(* tags, and the map of tags updated since the last scan.                  *)
(*                                                                         *)
(* The configuration (FieldDevice::handleTreeData, IOModule::              *)
(* handleTreeData) is constant once the device runs.  A tag's type, its    *)
(* point's type and the type of the register a protocol server maps to it  *)
(* agree, so one map stands for mUpdatedBinaryTags and mUpdatedAnalogTags: *)
(* a tag of type bool lives in the first, one of type double in the other. *)
(***************************************************************************)
EXTENDS Naturals

CONSTANTS
    None,          \* no entry in a map
    Tags,          \* every tag of the device
    BinaryTags,    \* mBinaryTags; the others are mAnalogTags
    External,      \* the external tags, those with a point
    Points,        \* the points of mExternalData
    PointType,     \* point -> the type its module adds it with
    PointOf,       \* external tag -> point (mTagToPoint, then mExternalPoints)
    AnalogValues   \* the analog values considered

Types == {"bool", "double"}

Type(t) == IF t \in BinaryTags THEN "bool" ELSE "double"

Values(type) == IF type = "bool" THEN {0, 1} ELSE AnalogValues

AllValues == {0, 1} \union AnalogValues

Internal == Tags \ External

\* The std::variant of the DataStore: a value with the type it was stored as.
Variant == [type : Types, val : AllValues]

Data(type, v) == [type |-> type, val |-> v]

ASSUME ConfigAssumption ==
    /\ BinaryTags \subseteq Tags
    /\ External \subseteq Tags
    /\ PointOf \in [External -> Points]
    /\ 0 \in AnalogValues
    /\ None \notin AllValues
    /\ PointType \in [Points -> Types]
    /\ \A t \in External : PointType[PointOf[t]] = Type(t)

-----------------------------------------------------------------------------
VARIABLES
    mExternalData,   \* [Points -> Variant]
    mInternalData,   \* [Internal -> Variant]
    mUpdatedTags     \* [Tags -> a value or None]: the two mUpdated...Tags maps

dataVars == <<mExternalData, mInternalData, mUpdatedTags>>

\* addExternalData stores T(), addInternalData the configured value.
DataInit ==
    /\ mExternalData = [p \in Points |-> Data(PointType[p], 0)]
    /\ mInternalData \in [Internal -> Variant]
    /\ \A t \in Internal : mInternalData[t].type = Type(t)
    /\ mUpdatedTags = [t \in Tags |-> None]

\* What the tag's variant holds; the caller asks for it as Type(t).
GetDataByTag(t) ==
    IF t \in External THEN mExternalData[PointOf[t]] ELSE mInternalData[t]

\* getDataByTag<T> throws std::bad_variant_access: the tag's variant holds
\* another type than the one its tag is read as.
BadVariantAccess(t) == GetDataByTag(t).type # Type(t)

\* Defect: the value is stored as a double whatever the tag.
SetDataByTagAsDouble(t, v) ==
    mExternalData' = IF t \in External
                     THEN [mExternalData EXCEPT ![PointOf[t]] = Data("double", v)]
                     ELSE mExternalData

SetDataByTag(t, v) ==
    mExternalData' = IF t \in External
                     THEN [mExternalData EXCEPT ![PointOf[t]] = Data(Type(t), v)]
                     ELSE mExternalData

SetDataByPoint(p, d) == mExternalData' = [mExternalData EXCEPT ![p] = d]

IsUpdatedTag(t) == mUpdatedTags[t] # None

AddUpdatedTag(t, v) == mUpdatedTags' = [mUpdatedTags EXCEPT ![t] = v]

\* Defect: both loops of scanOutputs copy the analog map.
GetUpdatedTagsAllAnalog(type) ==
    [t \in Tags |-> IF Type(t) = "double" THEN mUpdatedTags[t] ELSE None]

\* The copy of one of the two maps that a caller of getUpdatedBinaryTags or
\* getUpdatedAnalogTags takes.
GetUpdatedTags(type) ==
    [t \in Tags |-> IF Type(t) = type THEN mUpdatedTags[t] ELSE None]

\* The half of updateInternalData that runs under the mutex of this type.
UpdateInternalData(type) ==
    mInternalData' =
        [t \in Internal |-> IF Type(t) = type /\ IsUpdatedTag(t)
                            THEN Data(type, mUpdatedTags[t])
                            ELSE mInternalData[t]]

\* The half of clearUpdatedTags that empties the map of this type.
ClearUpdatedTags(type) ==
    mUpdatedTags' =
        [t \in Tags |-> IF Type(t) = type THEN None ELSE mUpdatedTags[t]]

\* Each map is inserted into under the mutex of its own type (addUpdatedBinaryTag,
\* addUpdatedAnalogTag), but cleared under the mutex of the other one.
Mutex(type) == type

ClearMutex(type) == IF type = "bool" THEN "double" ELSE "bool"

DataTypeOK ==
    /\ mExternalData \in [Points -> Variant]
    /\ mInternalData \in [Internal -> Variant]
    /\ mUpdatedTags \in [Tags -> AllValues \union {None}]
=============================================================================
