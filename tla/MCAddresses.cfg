SPECIFICATION TextSpec
CONSTANTS
  PlcTexts <- MCPlcTexts
  RecordTexts <- MCRecordTexts
  Words <- MCWords
  PlcAddressWords <- MCPlcAddressWords
INVARIANT ParsedAddressesAreValid
PROPERTIES PlcTextKeepsMeaning RecordTextKeepsMeaning
CHECK_DEADLOCK FALSE
