\* Every job of the sender against four partners.yaml, requests with up to two
\* oddities and responses with up to two alterations.
SPECIFICATION Spec
CONSTANTS
  Padded <- ShortToPadded
  PartnersFiles <- Files
  Receiver <- TheReceiver
  Sender <- TheSender
  Jobs <- Rows
  Starred <- Delimited
  Oddities <- RequestOddities
  MaxOddities = 2
  Alterations <- ResponseOddities
  MaxAlterations = 2
INVARIANTS
  AcceptedIsAttributed
  RefusalNamesAFault
  OwnGatewaysAgree
  OutcomeIsSigned
  ReceiptIsUnderstood
\* Refused to start, or done.
CHECK_DEADLOCK FALSE
