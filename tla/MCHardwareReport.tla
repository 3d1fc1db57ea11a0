-------------------------- MODULE MCHardwareReport --------------------------
(***************************************************************************)
(* Small instance of the repair report: one signal of each detector and    *)
(* source, doubling times on both sides of every threshold, and the two    *)
(* vendors whose entries the code can ask for.                             *)
(***************************************************************************)
EXTENDS HardwareReport

Flagged(source, component, metric, type, doubling) ==
    [ source |-> source, component |-> component, metric |-> metric,
      type |-> type, doubling_time_hours |-> doubling ]

MCSignal ==
    { Flagged("proc", "cpu", "load_1min", "zscore_spike", NULL),
      Flagged("ipmi", "fan3", "sensor_value", "zscore_spike", NULL),
      Flagged("smart", "sda", "reallocated_sector_ct", "zscore_spike", NULL),
      Flagged("smart", "sda", "reallocated_sector_ct", "smart_acceleration", NULL),
      Flagged("smart", "sda", "offline_uncorrectable", "smart_acceleration", NULL),
      Flagged("system", "all", "multivariate", "isolation_forest", NULL) }
    \cup
    { Flagged("ecc", "memory", "ce_count", "ecc_rate_acceleration", d) :
          d \in {0, 3, 4, 11, 12, 71, 72} }

MCComponentMap ==
    [ k \in {<<"smart", "sda">>, <<"ecc", "memory">>} |->
        IF k[1] = "smart" THEN "sda" ELSE "dimm_a2" ]

MCVendors ==
    << [vendor |-> "WDC", prefix |-> {"WDC", "WD"},
        attributes |-> {"1", "5", "187", "188", "197", "198"}],
       [vendor |-> "Seagate", prefix |-> {"ST"},
        attributes |-> {"1", "5", "187", "197", "198"}] >>

MCDriveModel == {{"WDC", "WD"}, {"ST"}, {}}
=============================================================================
