SPECIFICATION Spec
CONSTANTS
  Seller = {"s1", "s2"}
  Warehouse = {"w1", "w2"}
  Id = {1}
  MaxCalls = 3
  Inbounds <- InboundsDef
  Accepts <- AcceptsDef
  Transfers <- TransfersDef
  Adjustments <- AdjustmentsDef
  OrderPayloads <- OrderPayloadsDef
  Returns <- ReturnsDef
  Funds <- FundsDef
  HandPayloads <- HandPayloadsDef
  Amounts <- AmountsDef
INVARIANT ReadyMirrors
CHECK_DEADLOCK FALSE
