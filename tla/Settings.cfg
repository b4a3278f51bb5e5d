\* Four applications, of functions that share blocks; transfers fail, the sensor
\* answers late, the application may try again and pass wrong values.
SPECIFICATION SafeSpec
CONSTANTS
  MaxTries = 1
  Faults = TRUE
  Invalid = TRUE
  Applications = {
    {"set_resolution", "zone"},
    {"set_ranging_mode", "set_ranging_frequency_hz", "mode", "freq"},
    {"set_detection_thresholds_enable", "set_results_crc"},
    {"set_sharpener_percent", "set_detection_thresholds_auto_stop", "sharpener"}}
INVARIANT TypeOK
INVARIANT SetHolds
INVARIANT GetTells
INVARIANT InStep
INVARIANT CopiesAgree
