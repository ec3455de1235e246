------------------------------ MODULE Records ------------------------------
(***************************************************************************)
(* The records behind the API's models and the updates that are applied to *)
(* them: LocationRecord, DeviceRecord, UserRecord, UserDetailRecord,       *)
(* AccountRecord and SubscriptionRecord name the column of every property, *)
(* Patch turns a partial model into SET operations and DynamoDbClient      *)
(* applies them to one row.                                                *)
(*                                                                         *)
(* One row is followed from its creation through a sequence of updates,    *)
(* each of one property (or of an address, which brings coordinates with   *)
(* it).  A column is a pair of its group, a nested map such as "profile"   *)
(* or "item" for the item itself, and its name.  The n-th update writes    *)
(* the n-th of Values, so that what is read back tells which request wrote *)
(* it.                                                                     *)
(***************************************************************************)
EXTENDS Naturals, Sequences

CONSTANTS
    Kinds,       \* the models that are followed: "location", "device", "user", "account", "subscription"
    Values       \* the values that the updates write, one after the other: a sequence of strings

VARIABLES
    kind,        \* which model the row belongs to
    row,         \* the item in DynamoDB
    wanted,      \* what each property was last asked to be
    lost,        \* the properties that a later update is known to overwrite
    updates      \* how many updates were made

recordVars == <<kind, row, wanted, lost, updates>>

None == "none"                          \* undefined: no such column, or no such property
NoCoordinates == "no_coordinates"       \* geoLocation = {}

ASSUME RecordsAssumption ==
    /\ Kinds \subseteq {"location", "device", "user", "account", "subscription"}
    /\ Values \in Seq(STRING \ {None, NoCoordinates, "space"})

(***************************************************************************)
(* The columns.  fromModel, fromPartialModel and toModel of LocationRecord *)
(* list the same pairs three times; a triple is property, group, column.   *)
(***************************************************************************)
LocationColumns ==
    { <<"parent", "item", "parent_location_id">>, <<"address", "item", "address">>, <<"address2", "item", "address2">>,
      <<"city", "item", "city">>, <<"state", "item", "state">>, <<"country", "item", "country">>,
      <<"postalCode", "item", "postalcode">>, <<"timezone", "item", "timezone">>,
      <<"gallonsPerDayGoal", "item", "gallons_per_day_goal">>, <<"occupants", "item", "occupants">>,
      <<"stories", "item", "stories">>, <<"isProfileComplete", "item", "is_profile_complete">>,
      <<"nickname", "item", "location_name">>, <<"systemMode.target", "item", "target_system_mode">>,
      <<"systemMode.revertMinutes", "item", "revert_minutes">>, <<"systemMode.revertMode", "item", "revert_mode">>,
      <<"systemMode.revertScheduledAt", "item", "revert_scheduled_at">>,
      <<"irrigationSchedule", "item", "is_irrigation_schedule_enabled">>,
      <<"locationType", "profile", "location_type">>, <<"residenceType", "profile", "residence_type">>,
      <<"waterSource", "profile", "water_source">>, <<"locationSize", "profile", "location_size">>,
      <<"showerBathCount", "profile", "shower_bath_count">>, <<"toiletCount", "profile", "toilet_count">>,
      <<"waterShutoffKnown", "profile", "water_shutoff_known">>, <<"plumbingType", "profile", "plumbing_type">>,
      <<"indoorAmenities", "profile", "indoor_amenities">>, <<"outdoorAmenities", "profile", "outdoor_amenities">>,
      <<"plumbingAppliances", "profile", "plumbing_applicances">>,
      <<"homeownersInsurance", "profile", "home_owners_insurance">>,
      <<"hasPastWaterDamage", "profile", "has_past_water_damage">>,
      <<"pastWaterDamageClaimAmount", "profile", "past_water_damage_claim_amount">>,
      <<"waterUtility", "profile", "water_utility">>, <<"areas", "item", "areas">>, <<"class", "item", "location_class">>,
      <<"_mergedIntoLocationId", "item", "_merged_into_location_id">>,
      <<"geoLocation", "geo_positioning", "coordinates">> }

DeviceColumns ==
    { <<"nickname", "item", "nickname">>, <<"installationPoint", "item", "installation_point">>,
      <<"isPaired", "item", "is_paired">>, <<"systemMode.shouldInherit", "item", "should_inherit_system_mode">>,
      <<"systemMode.revertScheduledAt", "item", "revert_scheduled_at">>, <<"systemMode.revertMode", "item", "revert_mode">>,
      <<"systemMode.revertMinutes", "item", "revert_minutes">>, <<"systemMode.target", "item", "target_system_mode">>,
      <<"valve", "item", "target_valve_state">>, <<"deviceType", "item", "device_type">>,
      <<"deviceModel", "item", "device_model">>, <<"prvInstallation", "item", "prv_installation">>,
      <<"irrigationType", "item", "irrigation_type">>, <<"purchaseLocation", "item", "purchase_location">>,
      <<"area", "item", "area_id">>, <<"puckConfig", "item", "puck_configured_at">> }

\* Email is a column of User, the others of UserDetail: two tables with one row each.
UserColumns ==
    { <<"email", "item", "email">>, <<"firstName", "item", "firstname">>, <<"middleName", "item", "middlename">>,
      <<"lastName", "item", "lastname">>, <<"prefixName", "item", "prefixname">>, <<"suffixName", "item", "suffixname">>,
      <<"unitSystem", "item", "unit_system">>, <<"phoneMobile", "item", "phone_mobile">>, <<"locale", "item", "locale">>,
      <<"enabledFeatures", "item", "enabled_features">> }

AccountColumns ==
    { <<"owner", "item", "owner_user_id">>, <<"groups", "item", "group_id">>, <<"type", "item", "type_v2">> }

SubscriptionColumns ==
    { <<"plan", "item", "plan_id">>, <<"location", "item", "related_entity_id">>, <<"sourceId", "item", "source_id">>,
      <<"cancellationReason", "item", "cancellation_reason">>, <<"provider.name", "item", "subscription_provider">>,
      <<"provider.isActive", "item", "is_active">>, <<"customerId", "item", "provider_customer_id">>,
      <<"subscriptionId", "item", "provider_subscription_id">>,
      <<"currentPeriodStart", "stripe_provider_data", "current_period_start">>,
      <<"currentPeriodEnd", "stripe_provider_data", "current_period_end">>,
      <<"canceledAt", "stripe_provider_data", "canceled_at">>,
      <<"cancelAtPeriodEnd", "stripe_provider_data", "cancel_at_period_end">>,
      <<"status", "stripe_provider_data", "status">> }

Columns(k) ==
    CASE k = "location" -> LocationColumns
      [] k = "device"   -> DeviceColumns
      [] k = "user"     -> UserColumns
      [] k = "account"  -> AccountColumns
      [] k = "subscription" -> SubscriptionColumns

Props(k) == {c[1] : c \in Columns(k)}

ColumnOf(k, p) == LET c == CHOOSE c \in Columns(k) : c[1] = p IN <<c[2], c[3]>>

\* A partial device has properties of other services (pes, audio, learning), which have no column.
Settable(k) ==
    CASE k = "location" -> Props(k) \ {"class"}
      [] k = "device"   -> (Props(k) \ {"isPaired", "deviceType", "deviceModel"}) \cup {"pes"}
      [] k = "user"     -> Props(k)
      [] k = "account"  -> {"type"}
      [] k = "subscription" -> {}

Lists == {"indoorAmenities", "outdoorAmenities", "plumbingAppliances"}

\* What the previous version of the API kept of these properties, in the row itself.
LegacyColumn ==
    [locationType |-> "location_type", locationSize |-> "location_size_category",
     waterShutoffKnown |-> "water_shutoff_known", plumbingType |-> "galvanized_plumbing",
     indoorAmenities |-> "kitchen_amenities", outdoorAmenities |-> "outdoor_amenities",
     plumbingAppliances |-> "tankless"]

Stored(r, c) == IF c \in DOMAIN r.at THEN r.at[c] ELSE None

\* toModel: the property that a row shows.
Legacy(r, p) == IF p \in DOMAIN LegacyColumn THEN Stored(r, <<"item", LegacyColumn[p]>>) ELSE None

Default(p) ==
    CASE p = "timezone"          -> "America/New_York"
      [] p = "locationSize"      -> "gt_4000_sq_ft"
      [] p = "waterShutoffKnown" -> "unsure"
      [] p = "areas"             -> "empty"
      [] p = "class"             -> "empty"
      [] p \in Lists             -> "empty"
      [] p = "systemMode.shouldInherit" -> "true"
      [] p = "isPaired"          -> "false"
      [] p = "deviceType"        -> "flo_device_v2"
      [] p = "deviceModel"       -> "flo_device_075_v2"
      [] p = "enabledFeatures"   -> "empty"
      [] p = "locale"            -> "default"
      [] p = "type"              -> "personal"
      [] OTHER                   -> None

Or(v, w) == IF v = None THEN w ELSE v

\* A list is that of the profile, unless it is empty; then that of the previous version.
ShownList(k, r, p) ==
    LET own == Stored(r, ColumnOf(k, p))
    IN  Or(IF own = "empty" THEN None ELSE own, Or(Legacy(r, p), "empty"))

Shown(k, r, p) ==
    LET own == Stored(r, ColumnOf(k, p))
    IN  CASE p \in Lists -> ShownList(k, r, p)
          [] p = "nickname" /\ k = "location" -> Or(own, Stored(r, <<"item", "address">>))
          [] p \in {"parent", "area"} /\ own = "space" -> None       \* an id that is trimmed to nothing
          [] p = "puckConfig" /\ Stored(r, <<"item", "device_type">>) # "puck_oem" -> None
          [] OTHER -> Or(own, Or(Legacy(r, p), Default(p)))

(***************************************************************************)
(* fromPartialModel and fromPartialRecord: the SET operations of an        *)
(* update.  `given` is the partial model.  A location's patch names its    *)
(* profile, areas and water_shutoff_known whatever is given, and a user's  *)
(* its locale; an object with no defined property still names its group.   *)
(***************************************************************************)
Written(p, v) ==
    CASE p \in {"parent", "area"} /\ v = "empty" -> "space"          \* sanitizeWrite
      [] p = "email" /\ v = "Mixed" -> "mixed"                   \* toLowerCase
      [] p = "waterShutoffKnown" /\ v = "no" -> "unsure"         \* Numeric.NO is 0, which is falsy
      [] OTHER -> v

ValueOf(k, p, given) ==
    IF p \in DOMAIN given
    THEN Written(p, given[p])
    ELSE CASE p = "areas"             -> "empty"
           [] p = "waterShutoffKnown" -> "unsure"
           [] p = "locale"            -> "en-us"
           [] OTHER                   -> None

SetOps(k, given) ==
    LET defined == {p \in Props(k) : ValueOf(k, p, given) \notin {None, NoCoordinates}}
        named == [profile |-> k = "location", geo_positioning |-> "geoLocation" \in DOMAIN given,
                  stripe_provider_data |-> "provider.name" \in DOMAIN given]
    IN  [groups |-> {g \in DOMAIN named : named[g]},
         at     |-> [c \in {ColumnOf(k, p) : p \in defined} |->
                        ValueOf(k, CHOOSE p \in defined : ColumnOf(k, p) = c, given)]]

(***************************************************************************)
(* DynamoDbClient.update.  Nested objects are flattened into one SET per   *)
(* key.  DynamoDB rejects that when the row has no such map, or when the   *)
(* patch declares the name of a map and sets none of its keys; the client  *)
(* then sets the whole objects, which drops what they do not mention.      *)
(***************************************************************************)
IsRejected(r, patch) ==
    \E g \in patch.groups : g \notin r.groups \/ \A c \in DOMAIN patch.at : c[1] # g

Merge(old, new) == [c \in DOMAIN old \cup DOMAIN new |-> IF c \in DOMAIN new THEN new[c] ELSE old[c]]

Flattened(r, patch) == [r EXCEPT !.at = Merge(@, patch.at)]

Unflattened(r, patch) ==
    [groups |-> r.groups \cup patch.groups,
     at     |-> Merge([c \in {d \in DOMAIN r.at : d[1] \notin patch.groups} |-> r.at[c]], patch.at)]

\* Mutant: nested objects are never flattened.
UpdatedWhole(r, patch) == Unflattened(r, patch)

Updated(r, patch) ==
    IF IsRejected(r, patch) THEN Unflattened(r, patch) ELSE Flattened(r, patch)

\* DatabaseTable.update: an empty patch reads the row.
Applied(r, patch) == IF DOMAIN patch.at = {} THEN r ELSE Updated(r, patch)

(***************************************************************************)
(* Creation.  A location is created with its account, or was left by the   *)
(* previous version of the API, without profile and coordinates.           *)
(***************************************************************************)
Created(k, given) ==
    LET patch == SetOps(k, given)
        default(c) == CASE c = <<"item", "is_paired">>                  -> "false"
                        [] c = <<"item", "should_inherit_system_mode">> -> "true"
                        [] c[2] = "has_past_water_damage"           -> "false"
                        [] c[1] = "profile"                         -> "empty"
        columns == CASE k = "device"   -> {<<"item", "is_paired">>, <<"item", "should_inherit_system_mode">>}
                     [] k = "location" -> {ColumnOf(k, p) : p \in Lists \cup {"hasPastWaterDamage"}}
                     [] OTHER          -> {}
    IN  [groups |-> CASE k = "location"     -> {"profile", "geo_positioning"}
                      [] k = "subscription" -> {"stripe_provider_data"}
                      [] OTHER              -> {},
         at     |-> Merge([c \in columns |-> default(c)],
                          \* createUser writes neither unit_system nor a default locale.
                          [c \in {d \in DOMAIN patch.at :
                                    k = "user" => d[2] # "unit_system" /\ (d[2] = "locale" => "locale" \in DOMAIN given)}
                                |-> patch.at[c]])]

LegacyRow ==
    [groups |-> {},
     at |-> [c \in {<<"item", LegacyColumn[p]>> : p \in DOMAIN LegacyColumn}
                   \cup {<<"item", "location_name">>, <<"item", "address">>, <<"item", "timezone">>} |-> "legacy"]]

\* formatProviderData: Stripe's own data, with canceledAt only while Stripe has one.
ProviderInfo ==
    {"provider.name", "provider.isActive", "customerId", "subscriptionId", "currentPeriodStart",
     "currentPeriodEnd", "cancelAtPeriodEnd", "status"}

Plain == {"plan", "location", "sourceId"}

Creations(k) ==
    CASE k = "location" -> {Props(k), {"nickname", "timezone", "geoLocation"}}
      [] k = "device"   -> {{"nickname", "deviceType", "deviceModel"}}
      [] k = "user"     -> {Props(k) \ {"enabledFeatures"}, {"firstName", "lastName", "phoneMobile", "email"}}
      [] k = "account"  -> {{"owner", "type"}}
      [] k = "subscription" ->                         \* the stub; a webhook's, or one of the previous table
            {Plain \cup {"provider.name", "provider.isActive", "customerId", "subscriptionId"},
             Plain \cup ProviderInfo, Props(k) \ {"cancellationReason"}}

FirstValues ==
    [deviceType : {"puck_oem", "flo_device_v2"}, geoLocation : {"found", NoCoordinates},
     waterShutoffKnown : {"yes", "unsure"}]

FirstModel(props, first) == [p \in props |-> IF p \in DOMAIN first THEN first[p] ELSE "first"]

RecordInit ==
    /\ kind \in Kinds
    /\ updates = 0
    /\ \/ \E props \in Creations(kind), first \in FirstValues :
          LET given == FirstModel(props, first) IN
          /\ row = Created(kind, given)
          /\ wanted = [p \in Props(kind) |->
                        IF p \in props /\ given[p] # NoCoordinates THEN given[p] ELSE Shown(kind, row, p)]
          /\ lost = IF kind = "user" THEN {"unitSystem"} ELSE {}
       \/ /\ kind = "location"
          /\ row = LegacyRow
          /\ wanted = [p \in Props(kind) |-> Shown(kind, row, p)]
          /\ lost = {}

(***************************************************************************)
(* The updates.  A mode is set with or without the moment it reverts, an   *)
(* address brings the coordinates that the geocoder found, or none; a      *)
(* subscription is updated from Stripe by a webhook, or when it is         *)
(* canceled, with or without a reason; others are of one property each.    *)
(***************************************************************************)
Reverts == {"systemMode.revertMinutes", "systemMode.revertMode", "systemMode.revertScheduledAt"}

Inputs(p, v) ==
    CASE p = "waterShutoffKnown"                 -> {"yes", "no", "unsure"}
      [] p \in Lists \cup {"parent", "area"}     -> {v, "empty"}
      [] p = "email"                             -> {v, "Mixed"}
      [] OTHER                                   -> {v}

\* handleSubscriptionCreated and handleSubscriptionUpdated, and cancelSubscription.
FromStripe ==
    {ProviderInfo \cup canceled \cup rest :
        canceled \in {{}, {"canceledAt"}}, rest \in {Plain, {}, {"cancellationReason"}}}

Partials(k, v) ==
    {[q \in {pw[1]} |-> pw[2]] : pw \in
        {pw \in (Settable(k) \ ({"systemMode.target", "address"} \cup Reverts))
                  \X {v, "empty", "Mixed", "yes", "no", "unsure"} : pw[2] \in Inputs(pw[1], v)}}
    \cup (IF k \in {"location", "device"}
          THEN {[q \in {"systemMode.target"} \cup r |-> v] : r \in {{}, Reverts}} ELSE {})
    \cup (IF k = "subscription" THEN {[q \in props |-> v] : props \in FromStripe} ELSE {})
    \cup (IF k = "location"
          THEN {[q \in {"address", "geoLocation"} |-> IF q = "address" THEN v ELSE g] : g \in {v, NoCoordinates}}
          ELSE {})

(***************************************************************************)
(* What the caller may rely on afterwards, and what is known to be lost.   *)
(***************************************************************************)
Promised(p, v) ==
    CASE p = "email" /\ v = "Mixed"                      -> "mixed"
      [] p \in {"parent", "area"} /\ v = "empty"         -> None
      [] p = "puckConfig" /\ wanted["puckConfig"] # None  -> wanted["puckConfig"]    \* ifNotExists
      [] p = "puckConfig" /\ wanted["deviceType"] # "puck_oem" -> None
      [] p = "geoLocation" /\ v = NoCoordinates          -> wanted[p]
      [] OTHER                                           -> v

\* An update that cannot be flattened sets the profile and the coordinates as a whole.
SetsWholeObjects(given) ==
    /\ kind = "location"
    /\ \/ "profile" \notin row.groups
       \/ "geoLocation" \in DOMAIN given
          /\ (given["geoLocation"] = NoCoordinates \/ "geo_positioning" \notin row.groups)

\* What a mode, or Stripe, says by leaving it out.
Ended(given) ==
    ((IF "systemMode.target" \in DOMAIN given THEN Reverts ELSE {})
     \cup (IF "provider.name" \in DOMAIN given THEN {"canceledAt"} ELSE {})) \ DOMAIN given

OverwrittenBy(given) ==
    (({"areas", "waterShutoffKnown", "locale"} \cap Props(kind)) \ DOMAIN given)
    \cup {p \in {"waterShutoffKnown"} : p \in DOMAIN given /\ given[p] = "no"}
    \cup {p \in Lists : /\ p \in DOMAIN given /\ given[p] = "empty"
                        /\ kind = "location" /\ Legacy(row, p) # None}
    \cup {p \in {"puckConfig"} : p \in DOMAIN given /\ wanted[p] # None}
    \cup Ended(given)
    \cup {p \in Props(kind) \ DOMAIN given :
            SetsWholeObjects(given) /\ ColumnOf(kind, p)[1] = "profile" /\ Stored(row, ColumnOf(kind, p)) # None}
    \cup {p \in DOMAIN given : p = "geoLocation" /\ given[p] = NoCoordinates}

UpdatePartial(given) ==
    /\ updates < Len(Values)
    /\ updates' = updates + 1
    /\ row' = Applied(row, SetOps(kind, given))
    /\ wanted' = [p \in Props(kind) |->
                   CASE p \in DOMAIN given -> Promised(p, given[p])
                     [] p \in Ended(given) -> None
                     [] OTHER -> wanted[p]]
    /\ lost' = (lost \ DOMAIN given) \cup OverwrittenBy(given)
    /\ UNCHANGED kind

RecordNext ==
    \E given \in IF updates < Len(Values) THEN Partials(kind, Values[updates + 1]) ELSE {} :
        UpdatePartial(given)

RecordSpec == RecordInit /\ [][RecordNext]_recordVars

-----------------------------------------------------------------------------
(* An update changes what it was given and nothing else: whatever sequence *)
(* of updates a record has been through, every property shows what the     *)
(* last request that gave it asked for.  The exceptions are what the code  *)
(* is known to overwrite: the custom areas, waterShutoffKnown and the      *)
(* locale with every update that does not repeat them; "no" for the        *)
(* shut-off, which is stored as unsure; amenities of the previous API,     *)
(* which cannot be emptied; the moment of a revert that a later mode does  *)
(* not have, and canceledAt of a subscription that Stripe no longer counts *)
(* as canceled; the time a puck was first configured; the unit system of a *)
(* new user; and the profile, when an update of the address cannot be      *)
(* flattened.                                                              *)
KeepsTheRest ==
    \A p \in Props(kind) \ lost : Shown(kind, row, p) = wanted[p]

=============================================================================
