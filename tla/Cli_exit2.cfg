SPECIFICATION Spec
CONSTANTS
  Masters <- TwoMasters
  Plaintexts <- TwoPlaintexts
  CommandLines <- SomeCommandLines
  NoBlob <- OtherData
  MaxSealed = 1
  MaxAltered = 0
INVARIANT ExitTwoIsAWrongCall
