SPECIFICATION Spec
CONSTANTS
  Masters <- TwoMasters
  Plaintexts <- TwoPlaintexts
  CommandLines <- SomeCommandLines
  NoBlob <- OtherData
  MaxSealed = 2
  MaxAltered = 1
INVARIANTS TypeOK OpenedIsSealed CodesTellApart SealedOpens SilentOnFailure WrongCallIsToldFirst
